---- MODULE Spec2Model ----
(***************************************************************************)
(* Model of the optimization engine of neurophysics-lab                    *)
(* (src/backend/services/optimization_engine).                             *)
(*                                                                         *)
(* Numbers.  Python floats are modelled as fixed-point integers counting   *)
(* millionths: the integer n stands for the float n * 1e-6.  The           *)
(* feasibility tolerance 1e-6 is therefore 1.  Weights (objective weights, *)
(* the penalty weight) are plain multipliers, so weight * value is again   *)
(* in millionths and weight * d * d is divided by Micro once.              *)
(* float('inf') is Infinity, a value above every finite value of the       *)
(* model; it is only ever compared.                                        *)
(***************************************************************************)
EXTENDS Integers, Sequences, FiniteSets, TLC

\* ------------------------------------------------------------------------
\* Bounds of the model
\* ------------------------------------------------------------------------
MaxVal == 2            \* parameter values range over 0..MaxVal (millionths)
MaxObjectives == 2     \* longest objective list of a request
MaxConstraints == 2    \* most constraints of a request
MaxObjective == 2      \* objective values of a sample range over 1..MaxObjective
MaxFront == 3          \* most samples handed to the Pareto filter
MaxRuns == 2           \* calls of the entry points
NParticles == 2        \* n_particles (30 in the source)
NInitialPoints == 2    \* n_initial_points (10 in the source)
PsoMaxIter == 2        \* max_iter of the particle swarm (100 in the source)
BayesIter == 1         \* n_iter of the Bayesian loop (50 in the source)
MaxSamples == 5        \* most samples of a training set
MaxNew == 2            \* most samples of one update
MaxRows == 2           \* most rows of the inputs of a prediction
NTasks == 2            \* coroutines calling the surrogate model manager
DefaultParettoPoints == 2  \* preferences.get('paretto_points', 20)
MaxHistory == 3        \* records the history keeps (1000 in the source)
RecentWindow == 2      \* records a summary reads (10 in the source)
RecentMetrics == 1     \* records a summary returns (5 in the source)

\* ------------------------------------------------------------------------
\* Program constants
\* ------------------------------------------------------------------------
Micro == 1000000           \* fixed-point units per 1.0 (1 unit = 1e-6)
PenaltyWeight == 1000000   \* penalty_weight = 1e6 (a multiplier)
Tolerance == 1             \* 1e-6
Infinity == 1000000000     \* float('inf')

None == "None"

VARIABLES
    \* a request and one call of an evaluation function on it
    objectives,     \* list of objective dicts
    constraints,    \* dict constraint name -> constraint dict
    parameters,     \* ordered dict parameter name -> config
    x,              \* candidate vector handed to the evaluation functions
    paretto_solutions,   \* solutions collected by Pareto sampling
    paretto_objectives,  \* their objective vectors
    out,            \* what the last call returned
    \* the calls of optimize_system / optimize_multi_objective
    request,        \* run -> the optimization_request of the call
    pc,             \* run -> where the call's coroutine stands
    frame,          \* run -> the local variables of the running solver
    evaluations,    \* run -> objective evaluations made so far
    result,         \* run -> the dict returned, or the error raised
    cancel_requested, \* run -> the caller has asked to cancel the run
    \* the SymbolicConstraintEngine
    expression_cache, \* source expression -> parsed expression
    sym_out,          \* what the last call of the engine returned
    \* the SurrogateModelManager and the coroutines calling it
    models,           \* self.models: model id -> model_data
    task,             \* task -> the call it is in and where the call stands
    returned,         \* task -> what its last call returned or raised
    \* the calls of the methods of MultiObjectiveOptimizer
    preferences,      \* the caller's preferences dict
    mo_frame,         \* the local variables of the running method
    \* the PerformanceMonitor
    optimization_history, \* self.optimization_history
    mon_out               \* what the last call of the monitor returned

evalVars == <<objectives, constraints, parameters, x,
              paretto_solutions, paretto_objectives, out>>
runVars == <<request, pc, frame, evaluations, result, cancel_requested>>
symVars == <<expression_cache, sym_out>>
surVars == <<models, task, returned>>
moVars == <<preferences, mo_frame>>
monVars == <<optimization_history, mon_out>>
vars == <<evalVars, runVars, symVars, surVars, moVars, monVars>>

\* ------------------------------------------------------------------------
\* Helpers
\* ------------------------------------------------------------------------
RECURSIVE SumSet(_, _)
\* sum of f[k] over k in S
SumSet(S, f) ==
    IF S = {} THEN 0
    ELSE LET k == CHOOSE e \in S : TRUE IN f[k] + SumSet(S \ {k}, f)

Abs(n) == IF n < 0 THEN -n ELSE n
Max(a, b) == IF a >= b THEN a ELSE b

\* ------------------------------------------------------------------------
\* Expressions.  A source string is modelled by its shape:
\*   "1"      [kind |-> "num", n |-> Micro]
\*   "x"      [kind |-> "var", name |-> "x"]
\*   "x + y"  [kind |-> "add", left |-> "x", right |-> "y"]
\*   "x +"    [kind |-> "malformed"]
\*   "x - y"  [kind |-> "sub", left |-> "x", right |-> "y"]
\*   "f(x)"   [kind |-> "call", fn |-> "f", arg |-> "x"]
\* ------------------------------------------------------------------------
Num(n) == [kind |-> "num", n |-> n]
Var(v) == [kind |-> "var", name |-> v]
Add(a, b) == [kind |-> "add", left |-> a, right |-> b]
Malformed == [kind |-> "malformed"]
Sub(a, b) == [kind |-> "sub", left |-> a, right |-> b]
Apply(f, a) == [kind |-> "call", fn |-> f, arg |-> a]

\* the names an expression mentions
FreeNames(e) ==
    CASE e.kind = "var" -> {e.name}
      [] e.kind = "add" -> {e.left, e.right}
      [] e.kind = "sub" -> {e.left, e.right}
      [] e.kind = "call" -> {e.arg}
      [] OTHER -> {}

\* the functions safe_dict gives to eval (pi and e are its constants)
safe_dict_functions == {"sin", "cos", "tan", "exp", "log", "sqrt"}

\* the value of a function at v, for the functions the model gives a value
\* to: abs, and floor (the largest whole number <= v)
apply_function(f, v) ==
    CASE f = "abs" -> IF v < 0 THEN -v ELSE v
      [] f = "floor" -> (v \div Micro) * Micro

\* Python's eval(expression, {"__builtins__": {}}, env): the value, or an
\* exception (SyntaxError for a malformed string, NameError for a name that
\* env does not bind).
PyEval(e, env) ==
    CASE e.kind = "malformed" -> [ok |-> FALSE, val |-> 0]
      [] ~(FreeNames(e) \subseteq DOMAIN env) -> [ok |-> FALSE, val |-> 0]
      [] e.kind = "num" -> [ok |-> TRUE, val |-> e.n]
      [] e.kind = "var" -> [ok |-> TRUE, val |-> env[e.name]]
      [] e.kind = "add" -> [ok |-> TRUE, val |-> env[e.left] + env[e.right]]
      [] e.kind = "sub" -> [ok |-> TRUE, val |-> env[e.left] - env[e.right]]
      [] e.kind = "call" ->
            IF e.fn \in safe_dict_functions
            THEN [ok |-> TRUE, val |-> apply_function(e.fn, env[e.arg])]
            ELSE [ok |-> FALSE, val |-> 0]

\* OptimizationSolver._evaluate_expression: eval inside try, 0.0 on any
\* exception.
evaluate_expression(expression, params) ==
    LET r == PyEval(expression, params) IN
    IF r.ok THEN r.val ELSE 0

\* the functions sympify knows among those the model gives a value to; any
\* other name applied to an argument parses as an undefined function
sympy_functions == {"abs", "floor"}

\* sympify(normalized_expr): the parsed expression, or an exception.  sympy
\* simplifies while it parses: "x - x" is the number 0.
sympify(expression) ==
    CASE expression.kind = "malformed" -> [ok |-> FALSE, expr |-> Malformed]
      [] expression.kind = "sub" /\ expression.left = expression.right ->
            [ok |-> TRUE, expr |-> Num(0)]
      [] OTHER -> [ok |-> TRUE, expr |-> expression]

\* SymbolicConstraintEngine.parse_expression with the cache it is given:
\* the cached expression, or the freshly parsed one, or ValueError
parse_expression(cache, expression) ==
    IF expression \in DOMAIN cache
    THEN [ok |-> TRUE, expr |-> cache[expression]]
    ELSE sympify(expression)

\* the cache of a parse_expression that files the parsed expression under
\* what sympify made of it
parse_expression_cache_parsed(cache, expression) ==
    IF expression \notin DOMAIN cache /\ sympify(expression).ok
    THEN [e \in DOMAIN cache \cup {sympify(expression).expr} |->
             IF e = sympify(expression).expr
             THEN sympify(expression).expr ELSE cache[e]]
    ELSE cache

\* the cache parse_expression leaves
parse_expression_cache(cache, expression) ==
    IF expression \notin DOMAIN cache /\ sympify(expression).ok
    THEN [e \in DOMAIN cache \cup {expression} |->
             IF e = expression THEN sympify(expression).expr ELSE cache[e]]
    ELSE cache

\* expr.evalf(subs=subs_dict) and float(result): float() raises TypeError
\* on an undefined function applied to a number
evalf(expr, subs_dict) ==
    CASE expr.kind = "num" -> [ok |-> TRUE, val |-> expr.n]
      [] expr.kind = "var" -> [ok |-> TRUE, val |-> subs_dict[expr.name]]
      [] expr.kind = "add" ->
            [ok |-> TRUE, val |-> subs_dict[expr.left] + subs_dict[expr.right]]
      [] expr.kind = "sub" ->
            [ok |-> TRUE, val |-> subs_dict[expr.left] - subs_dict[expr.right]]
      [] expr.kind = "call" ->
            IF expr.fn \in sympy_functions
            THEN [ok |-> TRUE,
                  val |-> apply_function(expr.fn, subs_dict[expr.arg])]
            ELSE [ok |-> FALSE, val |-> 0]

\* sym_evaluate_expression substituting 0.0 for a symbol without a binding
sym_evaluate_expression_lenient(cache, expression, params) ==
    LET parsed == parse_expression(cache, expression) IN
    IF ~parsed.ok THEN [ok |-> FALSE, val |-> 0]
    ELSE evalf(parsed.expr,
               [n \in FreeNames(parsed.expr) |->
                   IF n \in DOMAIN params THEN params[n] ELSE 0])

\* SymbolicConstraintEngine.evaluate_expression with the cache it is given:
\* the float, or ValueError when the string does not parse, a free symbol
\* is not in parameters or the result is not a number
sym_evaluate_expression(cache, expression, params) ==
    LET parsed == parse_expression(cache, expression) IN
    IF ~parsed.ok THEN [ok |-> FALSE, val |-> 0]
    ELSE IF ~(FreeNames(parsed.expr) \subseteq DOMAIN params)
    THEN [ok |-> FALSE, val |-> 0]
    ELSE evalf(parsed.expr,
               [n \in FreeNames(parsed.expr) |-> params[n]])

\* ------------------------------------------------------------------------
\* OptimizationSolver: vectors and bindings
\* ------------------------------------------------------------------------
\* an ordered dict is a sequence of [name, config] entries
Keys(od) == {od[i].name : i \in 1..Len(od)}
IndexOf(od, k) == CHOOSE i \in 1..Len(od) : od[i].name = k

\* _vector_to_parameters(vector, parameters)
vector_to_parameters(vector, params) ==
    [k \in Keys(params) |->
        LET i == IndexOf(params, k) IN
        IF i <= Len(vector) THEN vector[i]
        ELSE IF "value" \in DOMAIN params[i].config
             THEN params[i].config.value ELSE 0]

\* _run_simulation: sum(parameters.values()) if parameters else 0.0
run_simulation(params) == SumSet(DOMAIN params, params)

\* _evaluate_surrogate_model: always 0.0 (the lookup result is unused)
evaluate_surrogate_model(model_id, params) == 0

\* objective.get('function') of an objective without that key
NoFunction == [type |-> None]

\* _evaluate_objective_function(function_def, parameters); function_def
\* None makes function_def.get raise AttributeError.
evaluate_objective_function(function_def, params) ==
    IF function_def = NoFunction THEN [ok |-> FALSE, val |-> 0]
    ELSE CASE function_def.type = "analytical" ->
                [ok |-> TRUE,
                 val |-> evaluate_expression(function_def.expression, params)]
           [] function_def.type = "surrogate" ->
                [ok |-> TRUE, val |-> evaluate_surrogate_model(None, params)]
           [] function_def.type = "simulation" ->
                [ok |-> TRUE, val |-> run_simulation(params)]
           [] OTHER -> [ok |-> TRUE, val |-> 0]

\* one term of the penalty: penalty_weight * (value - bound) ** 2
PenaltyTerm(value, bound) ==
    (PenaltyWeight * (value - bound) * (value - bound)) \div Micro

\* constraint_penalty without the test value > bound of the inequality branch
constraint_penalty_unguarded(constraint, params) ==
    LET value == evaluate_expression(constraint.expression, params) IN
    IF constraint.type \in {"inequality", "equality"}
    THEN PenaltyTerm(value, constraint.bound)
    ELSE 0

\* the contribution of one constraint in the loop of _evaluate_constraints
constraint_penalty(constraint, params) ==
    LET value == evaluate_expression(constraint.expression, params) IN
    IF constraint.type = "inequality" /\ value > constraint.bound
    THEN PenaltyTerm(value, constraint.bound)
    ELSE IF constraint.type = "equality"
    THEN PenaltyTerm(value, constraint.bound)
    ELSE 0

\* _evaluate_constraints(constraints, parameters)
evaluate_constraints(constrs, params) ==
    SumSet(DOMAIN constrs,
           [n \in DOMAIN constrs |-> constraint_penalty(constrs[n], params)])

\* the binding _evaluate_objectives builds: _vector_to_parameters(x, {})
objective_binding(vector) == vector_to_parameters(vector, << >>)

RECURSIVE objectives_cost(_, _)
\* the loop of _evaluate_objectives over the objective list
objectives_cost(objs, params) ==
    IF objs = << >> THEN [ok |-> TRUE, val |-> 0]
    ELSE LET objective == Head(objs)
             r == evaluate_objective_function(objective.function, params)
             rest == objectives_cost(Tail(objs), params)
         IN  IF ~r.ok \/ ~rest.ok THEN [ok |-> FALSE, val |-> 0]
             ELSE IF objective.type = "minimize"
             THEN [ok |-> TRUE, val |-> objective.weight * r.val + rest.val]
             ELSE [ok |-> TRUE, val |-> rest.val - objective.weight * r.val]

\* _evaluate_objectives(x, objectives, constraints): ok = FALSE when the call
\* raises, else val is the returned total_cost
evaluate_objectives(vector, objs, constrs) ==
    LET params == objective_binding(vector)
        cost == objectives_cost(objs, params)
    IN  IF ~cost.ok THEN cost
        ELSE [ok |-> TRUE,
              val |-> cost.val + evaluate_constraints(constrs, params)]

\* one entry of _analyze_constraints(constraints, result)
analyze_constraint(constraint, optimal_params) ==
    LET value == evaluate_expression(constraint.expression, optimal_params)
        bound == constraint.bound
        satisfied == IF constraint.type = "inequality"
                     THEN value <= bound
                     ELSE Abs(value - bound) < Tolerance
    IN  [value |-> value, bound |-> bound, satisfied |-> satisfied,
         violation |-> IF ~satisfied THEN value - bound ELSE 0]

\* _analyze_constraints(constraints, result)
analyze_constraints(constrs, optimal_params) ==
    [n \in DOMAIN constrs |-> analyze_constraint(constrs[n], optimal_params)]

\* ------------------------------------------------------------------------
\* ConstraintManager
\* ------------------------------------------------------------------------
\* _evaluate_constraint_feasibility(constraint, parameters)
cm_evaluate_constraint_feasibility(constraint, params) ==
    \* (the engine's cache holds what sympify returned, so the value does
    \* not depend on it)
    LET r == sym_evaluate_expression(<< >>, constraint.expression, params)
        value == r.val
        bound == constraint.bound
    IN  IF ~r.ok
        THEN [value |-> None, feasible |-> FALSE, violation |-> Infinity,
              error |-> TRUE]
        ELSE IF constraint.type = "equality"
        THEN [value |-> value, feasible |-> Abs(value - bound) < Tolerance,
              violation |-> Abs(value - bound), error |-> FALSE]
        ELSE IF constraint.type \in {"inequality", "bound"}
        THEN [value |-> value, feasible |-> value <= bound,
              violation |-> Max(0, value - bound), error |-> FALSE]
        ELSE [value |-> value, feasible |-> TRUE, violation |-> 0,
              error |-> FALSE]

\* _calculate_constraint_violations(parameters, constraints)
cm_calculate_constraint_violations(params, constrs) ==
    [n \in DOMAIN constrs |->
        cm_evaluate_constraint_feasibility(constrs[n], params).violation]

\* apply_constraints(parameters, constraints): the bound, linear and
\* nonlinear projections return the vector they are given.
cm_apply_constraints(params, constrs) ==
    LET violations == cm_calculate_constraint_violations(params, constrs) IN
    [feasible_parameters |-> params,
     constraint_violations |-> violations,
     is_feasible |-> \A n \in DOMAIN violations : violations[n] <= Tolerance,
     applied_constraints |-> DOMAIN constrs]

\* ------------------------------------------------------------------------
\* MultiObjectiveOptimizer: the Pareto filter
\* ------------------------------------------------------------------------
RECURSIVE SelectSeq2(_, _, _)
\* the subsequence of q at the indices of keep that are >= i, in order
SelectSeq2(q, keep, i) ==
    IF i > Len(q) THEN << >>
    ELSE IF i \in keep THEN <<q[i]>> \o SelectSeq2(q, keep, i + 1)
    ELSE SelectSeq2(q, keep, i + 1)

\* the test of the inner loop: other_obj dominates obj
dominates(other_obj, obj) ==
    /\ \A k \in 1..Len(obj) : other_obj[k] <= obj[k]
    /\ \E k \in 1..Len(obj) : other_obj[k] < obj[k]

\* _filter_non_dominated_solutions(solutions, objectives)
filter_non_dominated_solutions(solutions, objs) ==
    IF solutions = << >> THEN [solutions |-> << >>, objectives |-> << >>]
    ELSE LET n == IF Len(solutions) <= Len(objs)
                  THEN Len(solutions) ELSE Len(objs)
             keep == {i \in 1..n :
                        ~\E j \in 1..n : i # j /\ dominates(objs[j], objs[i])}
         IN  [solutions |-> SelectSeq2(solutions, keep, 1),
              objectives |-> SelectSeq2(objs, keep, 1)]

\* ------------------------------------------------------------------------
\* OptimizationSolver: dispatch, solvers and report
\* ------------------------------------------------------------------------
\* the keys of self.optimization_methods
optimization_methods ==
    {"genetic_algorithm", "gradient_descent", "bayesian_optimization",
     "particle_swarm", "linear_programming"}

\* the keys of MultiObjectiveOptimizer.multi_objective_methods
multi_objective_methods ==
    {"nsga2", "weighted_sum", "epsilon_constraint", "paretto_front"}

\* the method table of the entry point a request is sent to
method_table(api) ==
    IF api = "optimize_system" THEN optimization_methods
    ELSE multi_objective_methods

\* resolve_method falling back to a registered method instead of raising
resolve_method_default(table, method) ==
    IF method \in table THEN method
    ELSE IF "genetic_algorithm" \in table THEN "genetic_algorithm"
    ELSE "nsga2"

\* the method check of optimize_system / optimize_multi_objective: the
\* solver to run, or None when the check raises SimulationError
resolve_method(table, method) ==
    IF method \in table THEN method ELSE None

\* _get_parameter_bounds(parameters)
get_parameter_bounds(params) ==
    [i \in 1..Len(params) |->
        IF "bounds" \in DOMAIN params[i].config
        THEN params[i].config.bounds ELSE <<0, Micro>>]

\* _parameters_to_vector(parameters)
parameters_to_vector(params) ==
    [i \in 1..Len(params) |->
        IF "value" \in DOMAIN params[i].config
        THEN params[i].config.value ELSE Micro \div 2]

\* the vectors inside the box of the bounds, on the integer grid
Box(bounds) ==
    {v \in [1..Len(bounds) -> 0..MaxVal] :
        \A i \in 1..Len(bounds) : bounds[i][1] <= v[i] /\ v[i] <= bounds[i][2]}

\* positions[i] + velocities[i]: a vector on the grid, or the vector one
\* step below or one step above the range of the values
Moved(bounds) ==
    [1..Len(bounds) -> 0..MaxVal]
        \cup {[k \in 1..Len(bounds) |-> 0 - 1],
              [k \in 1..Len(bounds) |-> MaxVal + 1]}

\* a particle update that keeps the moved position as it is
clip_skipped(position, bounds) == position

\* np.clip(position, lows, highs): each coordinate brought into its bounds
clip(position, bounds) ==
    [k \in 1..Len(bounds) |->
        IF position[k] < bounds[k][1] THEN bounds[k][1]
        ELSE IF position[k] > bounds[k][2] THEN bounds[k][2]
        ELSE position[k]]

\* np.argmin(scores): the first index of the least score
argmin(scores) ==
    CHOOSE i \in 1..Len(scores) :
        /\ \A j \in 1..Len(scores) : scores[i] <= scores[j]
        /\ \A j \in 1..(i - 1) : scores[j] > scores[i]

RECURSIVE SumSeq(_)
SumSeq(q) == IF q = << >> THEN 0 ELSE Head(q) + SumSeq(Tail(q))

\* _check_pso_convergence(scores): np.std(scores) < 1e-6, that is
\* n * sum(s^2) - sum(s)^2 < n^2 * tol^2
check_pso_convergence(scores) ==
    LET n == Len(scores)
        sq == [i \in 1..n |-> scores[i] * scores[i]]
    IN  n * SumSeq(sq) - SumSeq(scores) * SumSeq(scores)
          < n * n * Tolerance * Tolerance

\* global_best_position is a numpy view: a row of personal_best_positions
\* (from the initialisation) or a row of positions (from an update)
deref(fr, ref) ==
    IF ref.arr = "positions" THEN fr.positions[ref.idx]
    ELSE fr.personal_best_positions[ref.idx]

\* _generate_optimization_report(result, objectives, constraints); the
\* objective analysis, sensitivity analysis and recommendations are left out
generate_optimization_report(method_result, objs, constrs) ==
    [optimization_summary |->
        [method_used |-> "Multi-objective Optimization",
         total_objectives |-> Len(objs),
         total_constraints |-> Cardinality(DOMAIN constrs),
         convergence_achieved |->
            IF "success" \in DOMAIN method_result.convergence_metrics
            THEN method_result.convergence_metrics.success ELSE FALSE],
     constraint_analysis |->
        analyze_constraints(constrs, method_result.optimal_parameters)]

\* the dict optimize_system returns
optimize_system_return(method, method_result, objs, constrs) ==
    [optimal_parameters |-> method_result.optimal_parameters,
     objective_values |-> method_result.objective_values,
     convergence_metrics |-> method_result.convergence_metrics,
     optimization_report |->
        generate_optimization_report(method_result, objs, constrs),
     method_used |-> method]

\* optimize_except putting the request back in the queue for a retry
optimize_except_retry(err) == [pc |-> "pending", error |-> "SimulationError"]

\* the except clause of optimize_system / optimize_multi_objective: every
\* exception leaves the call as a SimulationError
optimize_except(err) == [pc |-> "raised", error |-> "SimulationError"]

\* ------------------------------------------------------------------------
\* Evaluation calls on a request: the inputs
\* ------------------------------------------------------------------------
Values == 0..MaxVal
Weights == {1, 2}
BoundValues == {0, 1}
ParameterNames == <<"x", "y">>
ConstraintNames == {"c1", "c2", "c3"}

\* the request's parameters: x and y, each with a value and bounds
RequestParameters ==
    [i \in 1..Len(ParameterNames) |->
        [name |-> ParameterNames[i],
         config |-> [value |-> 0, bounds |-> <<0, MaxVal>>]]]

Vectors == [1..Len(ParameterNames) -> Values]

\* objective functions with a value, and those whose evaluation fails (a
\* malformed expression, a missing 'function' key)
ObjectiveFunctions ==
    {[type |-> "analytical", expression |-> Var("x")], [type |-> "simulation"]}
FailingObjectiveFunctions ==
    {[type |-> "analytical", expression |-> Malformed], NoFunction}

Objectives ==
    [type : {"minimize", "maximize"}, function : ObjectiveFunctions,
     weight : Weights]
    \cup [type : {"minimize"}, function : FailingObjectiveFunctions,
          weight : {1}]

\* constraints on x and x + y, constraints whose expression has no value (an
\* unbound name, a malformed string), and one of a type the solver skips
Constraints ==
    [type : {"equality", "inequality"},
     expression : {Var("x"), Add("x", "y")}, bound : BoundValues]
    \cup [type : {"equality", "inequality"},
          expression : {Var("z"), Malformed}, bound : {0}]
    \cup {[type |-> "nonlinear", expression |-> Var("x"), bound |-> 0]}

RECURSIVE SeqsUpTo(_, _)
\* the sequences over S of length at most n
SeqsUpTo(S, n) ==
    IF n = 0 THEN {<< >>}
    ELSE LET shorter == SeqsUpTo(S, n - 1) IN
         shorter \cup {Append(q, e) : q \in shorter, e \in S}

\* the dicts with at most n keys out of Names and values in S
DictsUpTo(Names, S, n) ==
    UNION {[D -> S] : D \in {E \in SUBSET Names : Cardinality(E) <= n}}

\* the binding the request's parameters give to a vector
Binding(vector) == vector_to_parameters(vector, RequestParameters)

\* objective vectors of two objectives, and the list of section 8
ObjectiveVectors == [1..2 -> 1..MaxObjective]
ExampleObjectives == << <<1, 4>>, <<2, 3>>, <<3, 2>>, <<4, 1>>, <<2, 2>> >>

\* two objectives of the given types
TwoObjectives(t1, t2) ==
    << [type |-> t1, weight |-> 1,
        function |-> [type |-> "analytical", expression |-> Var("x")]],
       [type |-> t2, weight |-> 1,
        function |-> [type |-> "analytical", expression |-> Var("y")]] >>

NoCall == [op |-> "none"]

\* ------------------------------------------------------------------------
\* Calls of the entry points: the requests
\* ------------------------------------------------------------------------
Runs == 1..MaxRuns

\* one parameter x with value 0 and bounds [0, 1e-6]
RunParameters ==
    << [name |-> "x", config |-> [value |-> 0, bounds |-> <<0, 1>>]] >>

\* minimize x subject to x <= 0
GoodObjectives ==
    << [type |-> "minimize", weight |-> 1,
        function |-> [type |-> "analytical", expression |-> Var("x")]] >>
\* an objective without the 'function' key
BadObjectives == << [type |-> "minimize", weight |-> 1, function |-> NoFunction] >>
RunConstraints ==
    [n \in {"c1"} |->
        [type |-> "inequality", expression |-> Var("x"), bound |-> 0]]

\* a constraint of a type that is neither equality nor inequality, and that
\* _validate_constraint_structure does not list either
InvalidTypeConstraints ==
    [n \in {"c1"} |->
        [type |-> "cubic", expression |-> Var("x"), bound |-> 0]]

\* one parameter x whose initial value 2e-6 lies outside its bounds [0, 1e-6]
OutOfBoundsParameters ==
    << [name |-> "x", config |-> [value |-> 2, bounds |-> <<0, 1>>]] >>

UnsupportedMethod == "simulated_annealing"

Requests ==
    [api : {"optimize_system"},
     method : optimization_methods \cup {UnsupportedMethod},
     objectives : {GoodObjectives, BadObjectives},
     constraints : {RunConstraints},
     parameters : {RunParameters}]
    \cup
    [api : {"optimize_multi_objective"},
     method : multi_objective_methods \cup {UnsupportedMethod},
     objectives : {GoodObjectives},
     constraints : {RunConstraints},
     parameters : {RunParameters}]

\* the requests that validation ought to reject: one with a constraint of an
\* invalid type, one with an initial value outside the bounds
InvalidRequests ==
    {[api |-> "optimize_system", method |-> "gradient_descent",
      objectives |-> GoodObjectives, constraints |-> InvalidTypeConstraints,
      parameters |-> RunParameters],
     [api |-> "optimize_system", method |-> "gradient_descent",
      objectives |-> GoodObjectives, constraints |-> RunConstraints,
      parameters |-> OutOfBoundsParameters]}

NoRequest == [api |-> None]
NoFrame == [kind |-> None]
NoResult == [pc |-> None]

\* no call has been made
RunsIdle ==
    /\ request = [r \in Runs |-> NoRequest]
    /\ pc = [r \in Runs |-> "pending"]
    /\ frame = [r \in Runs |-> NoFrame]
    /\ evaluations = [r \in Runs |-> 0]
    /\ result = [r \in Runs |-> NoResult]
    /\ cancel_requested = [r \in Runs |-> FALSE]

\* the symbolic engine after construction
SymIdle ==
    /\ expression_cache = << >>
    /\ sym_out = [op |-> "none"]

\* the surrogate model manager after construction, no coroutine calling it
SurIdle ==
    /\ models = << >>
    /\ task = [t \in 1..NTasks |-> [op |-> None]]
    /\ returned = [op |-> "none"]

\* no method of the multi-objective optimizer is being looked at
MoIdle ==
    /\ preferences = << >>
    /\ mo_frame = NoFrame

\* the performance monitor after construction
MonIdle ==
    /\ optimization_history = << >>
    /\ mon_out = [op |-> "none"]

\* no evaluation call is being looked at
EvalIdle ==
    /\ objectives = << >>
    /\ constraints = << >>
    /\ parameters = RequestParameters
    /\ x = [i \in 1..Len(ParameterNames) |-> 0]
    /\ paretto_solutions = << >>
    /\ paretto_objectives = << >>
    /\ out = NoCall

\* ------------------------------------------------------------------------
\* Evaluation calls on a request: the specification
\* ------------------------------------------------------------------------
\* Requests either stress the objectives (with at most one simple
\* constraint), or the constraints (with no objective), or carry the
\* samples of a Pareto run.
InitEval ==
    /\ parameters = RequestParameters
    /\ out = NoCall
    /\ RunsIdle
    /\ SymIdle
    /\ SurIdle
    /\ MoIdle
    /\ MonIdle
    /\ \/ /\ x \in Vectors
          /\ objectives \in SeqsUpTo(Objectives, MaxObjectives)
          /\ constraints \in
                DictsUpTo({"c1"},
                          {[type |-> "equality", expression |-> Var("x"),
                            bound |-> 1]}, 1)
          /\ paretto_solutions = << >>
          /\ paretto_objectives = << >>
       \/ /\ x \in Vectors
          /\ objectives = << >>
          /\ constraints \in
                DictsUpTo(ConstraintNames, Constraints, MaxConstraints)
          /\ paretto_solutions = << >>
          /\ paretto_objectives = << >>
       \/ /\ x = [i \in 1..Len(ParameterNames) |-> 0]
          /\ \E t1, t2 \in {"minimize", "maximize"} :
                objectives = TwoObjectives(t1, t2)
          /\ constraints = << >>
          /\ paretto_objectives \in
                SeqsUpTo(ObjectiveVectors, MaxFront) \cup {ExampleObjectives}
          /\ paretto_solutions = [i \in 1..Len(paretto_objectives) |-> i]

evalInputs == <<objectives, constraints, parameters, x,
                paretto_solutions, paretto_objectives>>

\* a solver evaluates the candidate x
EvaluateObjectives ==
    /\ out' = [op |-> "evaluate_objectives",
               result |-> evaluate_objectives(x, objectives, constraints)]
    /\ UNCHANGED <<evalInputs, runVars, symVars, surVars, moVars, monVars>>

\* the penalty of the binding of x
EvaluateConstraints ==
    /\ out' = [op |-> "evaluate_constraints",
               result |-> evaluate_constraints(constraints, Binding(x))]
    /\ UNCHANGED <<evalInputs, runVars, symVars, surVars, moVars, monVars>>

\* the report's constraint analysis with x as the optimal point
AnalyzeConstraints ==
    /\ out' = [op |-> "analyze_constraints",
               result |-> analyze_constraints(constraints, Binding(x))]
    /\ UNCHANGED <<evalInputs, runVars, symVars, surVars, moVars, monVars>>

\* the constraint manager's feasibility record of one constraint
CmEvaluateConstraintFeasibility ==
    /\ \E n \in DOMAIN constraints :
          out' = [op |-> "evaluate_constraint_feasibility", name |-> n,
                  result |-> cm_evaluate_constraint_feasibility(
                                 constraints[n], Binding(x))]
    /\ UNCHANGED <<evalInputs, runVars, symVars, surVars, moVars, monVars>>

\* ConstraintManager.apply_constraints on the binding of x
CmApplyConstraints ==
    /\ out' = [op |-> "apply_constraints",
               result |-> cm_apply_constraints(Binding(x), constraints)]
    /\ UNCHANGED <<evalInputs, runVars, symVars, surVars, moVars, monVars>>

\* the Pareto filter on the collected samples
FilterNonDominatedSolutions ==
    /\ out' = [op |-> "filter_non_dominated_solutions",
               result |-> filter_non_dominated_solutions(
                              paretto_solutions, paretto_objectives)]
    /\ UNCHANGED <<evalInputs, runVars, symVars, surVars, moVars, monVars>>

NextEval ==
    \/ EvaluateObjectives
    \/ EvaluateConstraints
    \/ AnalyzeConstraints
    \/ CmEvaluateConstraintFeasibility
    \/ CmApplyConstraints
    \/ FilterNonDominatedSolutions

SpecEval == InitEval /\ [][NextEval]_vars

\* ------------------------------------------------------------------------
\* Calls of the SymbolicConstraintEngine: the specification
\* ------------------------------------------------------------------------
\* "x", "x + y", "x - x", "abs(x)", "floor(x)", "foo(x)", "x +"
SymExpressions ==
    {Var("x"), Add("x", "y"), Sub("x", "x"),
     Apply("abs", "x"), Apply("floor", "x"), Apply("foo", "x"), Malformed}

\* bindings of some of x (-1e-6 or 1e-6), y (1e-6) and w (0.0, a name no
\* expression uses)
SymBindings ==
    UNION {{b \in [D -> {-1, 0, 1}] :
              \A n \in D : b[n] \in (CASE n = "x" -> {-1, 1}
                                       [] n = "y" -> {1}
                                       [] OTHER -> {0})} :
           D \in SUBSET {"x", "y", "w"}}

\* parse_expression(expression)
SymParseExpression(expression) ==
    /\ sym_out' = [op |-> "parse_expression", expression |-> expression,
                   result |-> parse_expression(expression_cache, expression)]
    /\ expression_cache' =
          parse_expression_cache(expression_cache, expression)
    /\ UNCHANGED <<evalVars, runVars, surVars, moVars, monVars>>

\* evaluate_expression(expression, parameters)
SymEvaluateExpression(expression, params) ==
    /\ sym_out' = [op |-> "evaluate_expression", expression |-> expression,
                   parameters |-> params,
                   result |-> sym_evaluate_expression(expression_cache,
                                                      expression, params)]
    /\ expression_cache' =
          parse_expression_cache(expression_cache, expression)
    /\ UNCHANGED <<evalVars, runVars, surVars, moVars, monVars>>

InitSym == EvalIdle /\ RunsIdle /\ SymIdle /\ SurIdle /\ MoIdle /\ MonIdle

NextSym ==
    \/ \E expression \in SymExpressions : SymParseExpression(expression)
    \/ \E expression \in SymExpressions, params \in SymBindings :
          SymEvaluateExpression(expression, params)

SpecSym == InitSym /\ [][NextSym]_vars

\* ------------------------------------------------------------------------
\* SurrogateModelManager: the operations as functions of the registry
\* ------------------------------------------------------------------------
\* Arrays are modelled by their number of rows.  An estimator is what its
\* fit left: whether it is fitted and on how many samples, the warm_start
\* flag, and in_fit while a fit on the object is under way.
model_types == {"gaussian_process", "random_forest", "neural_network"}

Estimator(fitted, n) ==
    [fitted |-> fitted, n_samples |-> n, warm_start |-> FALSE,
     in_fit |-> FALSE]

\* train_test_split(X, y, test_size=0.2): the test part has ceil(0.2 n)
\* rows, the train part floor(0.8 n); an empty train part raises
train_test_split(n) ==
    [ok |-> (4 * n) \div 5 >= 1,
     n_train |-> (4 * n) \div 5,
     n_test |-> (n + 4) \div 5]

\* MLPRegressor.fit with early_stopping=True holds out ceil(0.1 n) rows for
\* validation and raises when no row is left to train on
mlp_fit_ok(n) == n - ((n + 9) \div 10) >= 1

\* _create_gaussian_process / _create_random_forest /
\* _create_neural_network on n samples: the model and its training metrics,
\* or the exception of the split or the fit
create_model(model_type, n) ==
    LET split == train_test_split(n) IN
    IF ~split.ok
         \/ (model_type = "neural_network" /\ ~mlp_fit_ok(split.n_train))
    THEN [ok |-> FALSE]
    ELSE [ok |-> TRUE,
          model |-> Estimator(TRUE, split.n_train),
          training_metrics |-> [initial_training_samples |-> split.n_train]]

\* self.models[model_id] = {...}
store_model(registry, model_id, model_type, created) ==
    [id \in DOMAIN registry \cup {model_id} |->
        IF id = model_id
        THEN [model |-> created.model, model_type |-> model_type,
              training_metrics |-> created.training_metrics]
        ELSE registry[id]]

\* the output of a fitted estimator for a row: a function of what it was
\* fitted on
model_predict(model, i) == model.n_samples

ndarray(M, model) ==
    [kind |-> "ndarray", data |-> [i \in 1..M |-> model_predict(model, i)]]

\* predict(model_id, inputs), inputs having M rows
predict(registry, model_id, M) ==
    IF model_id \notin DOMAIN registry
    THEN [ok |-> FALSE, error |-> "SimulationError"]
    ELSE LET model_data == registry[model_id]
             model == model_data.model
         IN  IF ~model.fitted
             THEN [ok |-> FALSE, error |-> "SimulationError"]
             ELSE IF model_data.model_type = "gaussian_process"
                  THEN [ok |-> TRUE,
                        value |-> [kind |-> "tuple",
                                   items |-> <<ndarray(M, model),
                                               [kind |-> "ndarray",
                                                data |-> [i \in 1..M |-> 0]]>>]]
                  ELSE [ok |-> TRUE, value |-> ndarray(M, model)]

\* predict with the model popped from the registry
predict_registry_pop(registry, model_id) ==
    [id \in DOMAIN registry \ {model_id} |-> registry[id]]

\* the registry after predict(model_id, inputs): predict assigns nothing
predict_registry(registry, model_id) == registry

\* evaluate_model(model_id, test_data)
evaluate_model(registry, model_id, test_data) ==
    IF model_id \notin DOMAIN registry
         \/ "inputs" \notin DOMAIN test_data
         \/ ~registry[model_id].model.fitted
    THEN [ok |-> FALSE, error |-> "SimulationError"]
    ELSE [ok |-> TRUE, test_set_size |-> test_data.inputs]

\* _update_neural_network up to the call of fit: max_iter and warm_start are
\* set on the stored object itself, then the fit on it starts
begin_update(model_data) ==
    IF model_data.model_type = "neural_network"
    THEN [model_data EXCEPT !.model.warm_start = TRUE, !.model.in_fit = TRUE]
    ELSE model_data

\* the outcomes of _update_gaussian_process / _update_random_forest /
\* _update_neural_network on n_new samples, model_data being the entry as
\* begin_update left it.  The forest's update stacks the node values of the
\* trees into one array, which numpy refuses or not depending on its version
\* and on the shapes; when it does not raise, the model returned is a new
\* forest that was never fitted.
update_outcomes(model_data, n_new) ==
    LET model == model_data.model IN
    CASE model_data.model_type = "gaussian_process" ->
           {[ok |-> TRUE,
             model |-> Estimator(TRUE, model.n_samples + n_new),
             metrics |-> [added_samples |-> n_new,
                          total_samples |-> model.n_samples + n_new]]}
      [] model_data.model_type = "random_forest" ->
           IF ~model.fitted THEN {[ok |-> FALSE, model |-> model]}
           ELSE {[ok |-> FALSE, model |-> model],
                 [ok |-> TRUE, model |-> Estimator(FALSE, 0),
                  metrics |-> [added_samples |-> n_new]]}
      [] OTHER ->
           IF mlp_fit_ok(n_new)
           THEN {[ok |-> TRUE,
                  model |-> [model EXCEPT !.fitted = TRUE,
                                          !.n_samples = n_new,
                                          !.in_fit = FALSE],
                  metrics |-> [added_samples |-> n_new]]}
           ELSE {[ok |-> FALSE, model |-> [model EXCEPT !.in_fit = FALSE]]}

\* the entry of the registry after the update: the statements after the
\* dispatch on the model type, or the state the exception leaves
finish_update(model_data, outcome) ==
    IF outcome.ok
    THEN [model_data EXCEPT
            !.model = outcome.model,
            !.training_metrics = outcome.metrics @@ @]
    ELSE [model_data EXCEPT !.model = outcome.model]

\* list_models(): for each id its type and, as training_samples, the
\* initial_training_samples of its training metrics (r2_score and created_at
\* are left out)
list_models(registry) ==
    [id \in DOMAIN registry |->
        [model_id |-> id,
         model_type |-> registry[id].model_type,
         training_samples |->
            IF "initial_training_samples"
                  \in DOMAIN registry[id].training_metrics
            THEN registry[id].training_metrics.initial_training_samples
            ELSE 0]]

\* the steps of a coroutine of the manager at which it hands control back to
\* the event loop: none, every await is on a coroutine that never suspends
yield_points_fit == {"fit"}
yield_points == {}

\* ------------------------------------------------------------------------
\* SurrogateModelManager: the calls
\* ------------------------------------------------------------------------
Tasks == 1..NTasks
ModelIds == {"m1"}
ModelTypes == model_types \cup {"svm"}
NoData == [outputs |-> 0]
TrainingData == {NoData} \cup {[inputs |-> n, outputs |-> n] : n \in 0..MaxSamples}
NewData == {NoData} \cup {[inputs |-> n, outputs |-> n] : n \in 1..MaxNew}
Idle == [op |-> None]

\* the event loop may run a step of task t: no other coroutine is inside a
\* call, except at a point where it has yielded
CanRun(t) ==
    \A q \in Tasks \ {t} : task[q] # Idle => task[q].pc \in yield_points

Failed(op, model_id) ==
    [op |-> op, model_id |-> model_id, ok |-> FALSE,
     error |-> "SimulationError"]

\* create_surrogate_model up to the call of the model creator
CreateSurrogateModel(t, model_id, model_type, training_data) ==
    /\ task[t] = Idle
    /\ CanRun(t)
    /\ IF model_type \notin model_types
            \/ "inputs" \notin DOMAIN training_data
       THEN /\ returned' = Failed("create_surrogate_model", model_id)
            /\ UNCHANGED task
       ELSE /\ task' = [task EXCEPT ![t] =
                          [op |-> "create_surrogate_model",
                           model_id |-> model_id, model_type |-> model_type,
                           n |-> training_data.inputs, pc |-> "fit"]]
            /\ UNCHANGED returned
    /\ UNCHANGED <<models, evalVars, runVars, symVars, moVars, monVars>>

\* the model creator returns or raises; the model is stored
CreateFinish(t) ==
    /\ task[t] # Idle
    /\ task[t].op = "create_surrogate_model"
    /\ CanRun(t)
    /\ LET call == task[t]
           created == create_model(call.model_type, call.n)
       IN  IF created.ok
           THEN /\ models' = store_model(models, call.model_id,
                                         call.model_type, created)
                /\ returned' =
                     [op |-> "create_surrogate_model",
                      model_id |-> call.model_id, ok |-> TRUE,
                      training_metrics |-> created.training_metrics]
           ELSE /\ returned' = Failed("create_surrogate_model", call.model_id)
                /\ UNCHANGED models
    /\ task' = [task EXCEPT ![t] = Idle]
    /\ UNCHANGED <<evalVars, runVars, symVars, moVars, monVars>>

\* predict(model_id, inputs)
Predict(t, model_id, M) ==
    /\ task[t] = Idle
    /\ CanRun(t)
    /\ returned' = [op |-> "predict", model_id |-> model_id, inputs |-> M]
                     @@ predict(models, model_id, M)
    /\ models' = predict_registry(models, model_id)
    /\ UNCHANGED <<task, evalVars, runVars, symVars, moVars, monVars>>

\* evaluate_model(model_id, test_data)
EvaluateModel(t, model_id, test_data) ==
    /\ task[t] = Idle
    /\ CanRun(t)
    /\ returned' = [op |-> "evaluate_model", model_id |-> model_id]
                     @@ evaluate_model(models, model_id, test_data)
    /\ UNCHANGED <<models, task, evalVars, runVars, symVars, moVars, monVars>>

\* update_model up to the fit inside the update function of the model type;
\* entry_before keeps the entry as the call found it
UpdateModel(t, model_id, new_data) ==
    /\ task[t] = Idle
    /\ CanRun(t)
    /\ IF model_id \notin DOMAIN models \/ "inputs" \notin DOMAIN new_data
       THEN /\ returned' = Failed("update_model", model_id)
            /\ UNCHANGED <<models, task>>
       ELSE /\ models[model_id].model_type = "gaussian_process"
                 => models[model_id].model.n_samples + new_data.inputs
                      <= MaxSamples
            /\ models' = [models EXCEPT ![model_id] = begin_update(@)]
            /\ task' = [task EXCEPT ![t] =
                          [op |-> "update_model", model_id |-> model_id,
                           n |-> new_data.inputs, pc |-> "fit",
                           entry_before |-> models[model_id]]]
            /\ UNCHANGED returned
    /\ UNCHANGED <<evalVars, runVars, symVars, moVars, monVars>>

\* the update function returns or raises; the entry is updated
UpdateFinish(t) ==
    /\ task[t] # Idle
    /\ task[t].op = "update_model"
    /\ CanRun(t)
    /\ LET call == task[t] IN
       IF call.model_id \notin DOMAIN models
       THEN /\ returned' = Failed("update_model", call.model_id)
            /\ UNCHANGED models
       ELSE \E outcome \in update_outcomes(models[call.model_id], call.n) :
               /\ models' = [models EXCEPT ![call.model_id] =
                                finish_update(@, outcome)]
               /\ returned' =
                    IF outcome.ok
                    THEN [op |-> "update_model", model_id |-> call.model_id,
                          ok |-> TRUE,
                          total_training_samples |->
                             call.n + models[call.model_id].training_metrics
                                        .initial_training_samples]
                    ELSE Failed("update_model", call.model_id)
    /\ task' = [task EXCEPT ![t] = Idle]
    /\ UNCHANGED <<evalVars, runVars, symVars, moVars, monVars>>

\* delete_model(model_id)
DeleteModel(t, model_id) ==
    /\ task[t] = Idle
    /\ CanRun(t)
    /\ IF model_id \in DOMAIN models
       THEN /\ models' = [id \in DOMAIN models \ {model_id} |-> models[id]]
            /\ returned' = [op |-> "delete_model", model_id |-> model_id,
                            ok |-> TRUE]
       ELSE /\ returned' = Failed("delete_model", model_id)
            /\ UNCHANGED models
    /\ UNCHANGED <<task, evalVars, runVars, symVars, moVars, monVars>>

InitSur == EvalIdle /\ RunsIdle /\ SymIdle /\ SurIdle /\ MoIdle /\ MonIdle

NextSur ==
    \E t \in Tasks :
        \/ \E model_id \in ModelIds, model_type \in ModelTypes,
              training_data \in TrainingData :
              CreateSurrogateModel(t, model_id, model_type, training_data)
        \/ CreateFinish(t)
        \/ \E model_id \in ModelIds, M \in 1..MaxRows : Predict(t, model_id, M)
        \/ \E model_id \in ModelIds, test_data \in NewData :
              EvaluateModel(t, model_id, test_data)
        \/ \E model_id \in ModelIds, new_data \in NewData :
              UpdateModel(t, model_id, new_data)
        \/ UpdateFinish(t)
        \/ \E model_id \in ModelIds : DeleteModel(t, model_id)

SpecSur == InitSur /\ [][NextSur]_vars

\* ------------------------------------------------------------------------
\* Calls of the entry points: the operations
\* ------------------------------------------------------------------------
\* where run r stands, read as the status of the run
Status(r) ==
    CASE pc[r] = "pending" -> "pending"
      [] pc[r] = "returned" -> "succeeded"
      [] pc[r] = "raised" -> "failed"
      [] OTHER -> "running"

Terminal == {"succeeded", "failed", "cancelled"}

\* optimize_system and the solvers contain no await that yields to the event
\* loop, so a call runs to its end before another call takes a step
OthersNotRunning(r) == \A q \in Runs \ {r} : Status(q) # "running"

\* the first step of the solver a method name selects
solver_entry(method) ==
    CASE method = "particle_swarm" -> "pso_init"
      [] method = "bayesian_optimization" -> "bayes_init"
      [] method \in {"genetic_algorithm", "gradient_descent"} -> "scipy"
      [] method = "linear_programming" -> "lp"
      [] OTHER -> "mo_solve"

\* the call raises: the except clause turns the exception into
\* SimulationError
Raise(r, err) ==
    /\ pc' = [pc EXCEPT ![r] = optimize_except(err).pc]
    /\ result' = [result EXCEPT ![r] = optimize_except(err)]
    /\ frame' = [frame EXCEPT ![r] = NoFrame]

\* the call returns res
Return(r, res) ==
    /\ pc' = [pc EXCEPT ![r] = "returned"]
    /\ result' = [result EXCEPT ![r] = [pc |-> "returned", value |-> res]]
    /\ frame' = [frame EXCEPT ![r] = NoFrame]

\* optimize_system returns after the solver of r produced method_result
ReturnSystem(r, method_result) ==
    Return(r, optimize_system_return(request[r].method, method_result,
                                     request[r].objectives,
                                     request[r].constraints))

\* the objective closure of run r
Objective(r, vector) ==
    evaluate_objectives(vector, request[r].objectives, request[r].constraints)

\* a caller invokes optimize_system or optimize_multi_objective with req
Call(r, req) ==
    /\ pc[r] = "pending"
    /\ \A q \in Runs : q < r => pc[q] # "pending"
    /\ OthersNotRunning(r)
    /\ request' = [request EXCEPT ![r] = req]
    /\ pc' = [pc EXCEPT ![r] = "dispatch"]
    /\ UNCHANGED <<frame, evaluations, result, cancel_requested, evalVars, symVars, surVars, moVars, monVars>>

\* the method check and the call of the selected solver
Dispatch(r) ==
    /\ pc[r] = "dispatch"
    /\ LET m == resolve_method(method_table(request[r].api),
                               request[r].method)
       IN  IF m = None
           THEN Raise(r, "Unsupported optimization method")
           ELSE /\ pc' = [pc EXCEPT ![r] = solver_entry(m)]
                /\ UNCHANGED <<frame, result>>
    /\ UNCHANGED <<request, evaluations, cancel_requested, evalVars, symVars, surVars, moVars, monVars>>

\* _genetic_algorithm / _gradient_descent: differential_evolution and
\* minimize are library calls; they return some point of the box, its
\* objective value and a success flag
ScipySolve(r) ==
    /\ pc[r] = "scipy"
    /\ \E xr \in Box(get_parameter_bounds(request[r].parameters)),
          success \in BOOLEAN :
          LET y == Objective(r, xr) IN
          /\ evaluations' = [evaluations EXCEPT ![r] = @ + 1]
          /\ IF ~y.ok THEN Raise(r, "AttributeError")
             ELSE ReturnSystem(r,
                    [optimal_parameters |->
                        vector_to_parameters(xr, request[r].parameters),
                     objective_values |-> [total_cost |-> y.val],
                     convergence_metrics |->
                        [iterations |-> "nit", success |-> success,
                         message |-> "message"]])
    /\ UNCHANGED <<request, cancel_requested, evalVars, symVars, surVars, moVars, monVars>>

\* _particle_swarm up to the optimization loop
PsoInitialize(r) ==
    /\ pc[r] = "pso_init"
    /\ \E positions \in
            [1..NParticles -> Box(get_parameter_bounds(request[r].parameters))] :
          LET ys == [i \in 1..NParticles |-> Objective(r, positions[i])] IN
          IF \E i \in 1..NParticles : ~ys[i].ok
          THEN /\ evaluations' = [evaluations EXCEPT ![r] = @ + 1]
               /\ Raise(r, "AttributeError")
          ELSE LET scores == [i \in 1..NParticles |-> ys[i].val]
                   global_best_idx == argmin(scores)
               IN  /\ evaluations' = [evaluations EXCEPT ![r] = @ + NParticles]
                   /\ frame' = [frame EXCEPT ![r] =
                        [kind |-> "particle_swarm",
                         positions |-> positions,
                         personal_best_positions |-> positions,
                         personal_best_scores |-> scores,
                         global_best_position |->
                            [arr |-> "personal_best_positions",
                             idx |-> global_best_idx],
                         global_best_score |-> scores[global_best_idx],
                         iteration |-> 0,
                         i |-> 1]]
                   /\ pc' = [pc EXCEPT ![r] = "pso_loop"]
                   /\ UNCHANGED result
    /\ UNCHANGED <<request, cancel_requested, evalVars, symVars, surVars, moVars, monVars>>

\* one pass of the inner loop: particle i moves (the velocity draws r1 and
\* r2 at random, the position is clipped into the box) and is scored
PsoUpdateParticle(r) ==
    /\ pc[r] = "pso_loop"
    /\ frame[r].i <= NParticles
    /\ \E position \in
            {clip(moved, get_parameter_bounds(request[r].parameters)) :
                moved \in Moved(get_parameter_bounds(request[r].parameters))} :
          LET fr == frame[r]
              i == fr.i
              y == Objective(r, position)
              current_score == y.val
              better == current_score < fr.personal_best_scores[i]
              best == better /\ current_score < fr.global_best_score
          IN  /\ evaluations' = [evaluations EXCEPT ![r] = @ + 1]
              /\ IF ~y.ok THEN Raise(r, "AttributeError")
                 ELSE /\ frame' = [frame EXCEPT ![r] =
                           [fr EXCEPT
                              !.positions[i] = position,
                              !.personal_best_positions[i] =
                                  IF better THEN position ELSE @,
                              !.personal_best_scores[i] =
                                  IF better THEN current_score ELSE @,
                              !.global_best_position =
                                  IF best
                                  THEN [arr |-> "positions", idx |-> i]
                                  ELSE @,
                              !.global_best_score =
                                  IF best THEN current_score ELSE @,
                              !.i = i + 1]]
                      /\ UNCHANGED <<pc, result>>
    /\ UNCHANGED <<request, cancel_requested, evalVars, symVars, surVars, moVars, monVars>>

\* the end of a pass of the outer loop: stop on convergence or on the
\* iteration budget, else start the next generation
PsoEndIteration(r) ==
    /\ pc[r] = "pso_loop"
    /\ frame[r].i = NParticles + 1
    /\ LET fr == frame[r] IN
       IF check_pso_convergence(fr.personal_best_scores)
            \/ fr.iteration + 1 >= PsoMaxIter
       THEN ReturnSystem(r,
              [optimal_parameters |->
                  vector_to_parameters(deref(fr, fr.global_best_position),
                                       request[r].parameters),
               objective_values |-> [total_cost |-> fr.global_best_score],
               convergence_metrics |-> [iterations |-> fr.iteration + 1]])
       ELSE /\ frame' = [frame EXCEPT ![r] =
                            [fr EXCEPT !.iteration = @ + 1, !.i = 1]]
            /\ UNCHANGED <<pc, result>>
    /\ UNCHANGED <<request, evaluations, cancel_requested, evalVars, symVars, surVars, moVars, monVars>>

\* _bayesian_optimization up to the loop: the initial sample and its scores
BayesInitialSample(r) ==
    /\ pc[r] = "bayes_init"
    /\ \E X_initial \in
            [1..NInitialPoints ->
                Box(get_parameter_bounds(request[r].parameters))] :
          LET ys == [i \in 1..NInitialPoints |-> Objective(r, X_initial[i])] IN
          IF \E i \in 1..NInitialPoints : ~ys[i].ok
          THEN /\ evaluations' = [evaluations EXCEPT ![r] = @ + 1]
               /\ Raise(r, "AttributeError")
          ELSE /\ evaluations' =
                     [evaluations EXCEPT ![r] = @ + NInitialPoints]
               /\ frame' = [frame EXCEPT ![r] =
                     [kind |-> "bayesian_optimization",
                      X_samples |-> X_initial,
                      y_samples |-> [i \in 1..NInitialPoints |-> ys[i].val],
                      iteration |-> 0]]
               /\ pc' = [pc EXCEPT ![r] = "bayes_loop"]
               /\ UNCHANGED result
    /\ UNCHANGED <<request, cancel_requested, evalVars, symVars, surVars, moVars, monVars>>

\* the Bayesian loop: _next_bayesian_point calls _norm_cdf, whose erf and
\* sqrt are names the module never imports, so the first pass raises
\* NameError; with no pass left the best sample is returned
BayesIterate(r) ==
    /\ pc[r] = "bayes_loop"
    /\ LET fr == frame[r] IN
       IF fr.iteration < BayesIter
       THEN Raise(r, "NameError")
       ELSE LET best_idx == argmin(fr.y_samples) IN
            ReturnSystem(r,
              [optimal_parameters |->
                  vector_to_parameters(fr.X_samples[best_idx],
                                       request[r].parameters),
               objective_values |-> [total_cost |-> fr.y_samples[best_idx]],
               convergence_metrics |->
                  [iterations |-> BayesIter,
                   surrogate_model_used |-> "GaussianProcessRegressor"]])
    /\ UNCHANGED <<request, evaluations, cancel_requested, evalVars, symVars, surVars, moVars, monVars>>

\* _linear_programming: pulp solves the problem; the objective closure is
\* not used
LinearProgramming(r) ==
    /\ pc[r] = "lp"
    /\ \E xr \in Box(get_parameter_bounds(request[r].parameters)) :
          ReturnSystem(r,
            [optimal_parameters |->
                vector_to_parameters(xr, request[r].parameters),
             objective_values |-> [total_cost |-> 0],
             convergence_metrics |->
                [status |-> "Optimal", method |-> "LinearProgramming"]])
    /\ UNCHANGED <<request, evaluations, cancel_requested, evalVars, symVars, surVars, moVars, monVars>>

\* a method of MultiObjectiveOptimizer runs (scipy / pymoo) and the
\* comprehensive result is built, or an exception escapes; nsga2 always
\* raises, its problem class calls evaluator methods that do not exist
MultiObjectiveSolve(r) ==
    /\ pc[r] = "mo_solve"
    /\ evaluations' = [evaluations EXCEPT ![r] = @ + 1]
    /\ \E ok \in BOOLEAN :
          IF ok /\ request[r].method # "nsga2"
          THEN Return(r, [optimization_results |-> request[r].method,
                          objectives_count |-> Len(request[r].objectives),
                          constraints_count |->
                              Cardinality(DOMAIN request[r].constraints)])
          ELSE Raise(r, "Exception")
    /\ UNCHANGED <<request, cancel_requested, evalVars, symVars, surVars, moVars, monVars>>

\* the caller asks to cancel a run that is executing
RequestCancel(r) ==
    /\ Status(r) = "running"
    /\ ~cancel_requested[r]
    /\ cancel_requested' = [cancel_requested EXCEPT ![r] = TRUE]
    /\ UNCHANGED <<request, pc, frame, evaluations, result, evalVars, symVars, surVars, moVars, monVars>>

Init == EvalIdle /\ RunsIdle /\ SymIdle /\ SurIdle /\ MoIdle /\ MonIdle

Next ==
    \E r \in Runs :
        \/ \E req \in Requests : Call(r, req)
        \/ Dispatch(r)
        \/ ScipySolve(r)
        \/ PsoInitialize(r)
        \/ PsoUpdateParticle(r)
        \/ PsoEndIteration(r)
        \/ BayesInitialSample(r)
        \/ BayesIterate(r)
        \/ LinearProgramming(r)
        \/ MultiObjectiveSolve(r)
        \/ RequestCancel(r)

Spec == Init /\ [][Next]_vars

\* ------------------------------------------------------------------------
\* Calls of optimize_system with the requests validation ought to reject
\* ------------------------------------------------------------------------
InitInvalid == EvalIdle /\ RunsIdle /\ SymIdle /\ SurIdle /\ MoIdle /\ MonIdle

NextInvalid ==
    \E r \in Runs :
        \/ \E req \in InvalidRequests : Call(r, req)
        \/ Dispatch(r)
        \/ ScipySolve(r)
        \/ RequestCancel(r)

SpecInvalid == InitInvalid /\ [][NextInvalid]_vars

\* ------------------------------------------------------------------------
\* MultiObjectiveOptimizer: weights, constraint functions and the methods
\* ------------------------------------------------------------------------
\* A dict of this class is a sequence of entries in insertion order (an
\* entry of parameters is [name, value], an entry of constraints is
\* [name, type, expression, bound]); preferences is a function of its keys.
\* A list of weights is [num, den]: weight i is num[i] / den.

\* the keys of self.preference_models
preference_models ==
    {"equal_weights", "user_defined", "entropy_weights", "ahp_weights"}

\* d.get(k, default)
dict_get(d, k, default) == IF k \in DOMAIN d THEN d[k] ELSE default

\* d.update({entry.name: entry}): a key d has keeps its place
dict_update(d, entry) ==
    IF \E i \in 1..Len(d) : d[i].name = entry.name
    THEN [i \in 1..Len(d) |-> IF d[i].name = entry.name THEN entry ELSE d[i]]
    ELSE Append(d, entry)

\* sum(d.values()) of a dict of floats
sum_values(d) == SumSeq([i \in 1..Len(d) |-> d[i].value])

\* max(d.values()) of a dict of floats that is not empty
max_values(d) ==
    CHOOSE v \in {d[i].value : i \in 1..Len(d)} :
        \A i \in 1..Len(d) : d[i].value <= v

\* the list [] of preferences.get('weights', [])
NoWeights == [num |-> << >>, den |-> 1]

\* _equal_weights: [1.0 / n] * n
equal_weights(objs) ==
    [num |-> [i \in 1..Len(objs) |-> 1], den |-> Len(objs)]

\* _user_defined_weights: preferences['weights'] divided by their sum
\* when there is one weight for each objective, else equal weights
user_defined_weights(objs, prefs) ==
    LET user_weights == dict_get(prefs, "weights", NoWeights) IN
    IF Len(user_weights.num) = Len(objs)
    THEN [num |-> user_weights.num, den |-> SumSeq(user_weights.num)]
    ELSE equal_weights(objs)

\* _determine_weights: the model preferences['weight_method'] names;
\* the entropy and the AHP models return equal weights
determine_weights(objs, prefs) ==
    LET requested == dict_get(prefs, "weight_method", "equal_weights")
        weight_method == IF requested \in preference_models
                         THEN requested ELSE "equal_weights"
    IN  IF weight_method = "user_defined"
        THEN user_defined_weights(objs, prefs)
        ELSE equal_weights(objs)

\* evaluate_objective: the mean of the parameters, whatever the expression
mo_evaluate_objective(objective, params) ==
    IF params = << >> THEN 0 ELSE sum_values(params) \div Len(params)

\* _normalize_parameters: each value over the largest
normalize_parameters(params) ==
    LET max_val == IF params = << >> THEN Micro ELSE max_values(params) IN
    [i \in 1..Len(params) |-> (params[i].value * Micro) \div max_val]

\* _denormalize_parameters: each coordinate times the largest value
denormalize_parameters(normalized, original) ==
    LET max_val == IF original = << >> THEN Micro ELSE max_values(original)
    IN  [i \in 1..Len(original) |->
            [name |-> original[i].name,
             value |-> (normalized[i] * max_val) \div Micro]]

\* the parameters of the calls: a = 0.0002, b = 0.0004
MoParameters ==
    << [name |-> "a", value |-> 200],
       [name |-> "b", value |-> 400] >>

\* the corners of the box [0, 1]^n the searches are bounded to
MoGrid == [1..Len(MoParameters) -> {0, Micro}]

\* scipy's minimize from the guess x0 within the bounds: result.x is the
\* guess or a point of the box (the methods never read result.success)
minimize(x0) == MoGrid \cup {x0}

\* the points a constraint function may be called at
MoPoints == minimize(normalize_parameters(MoParameters))

\* _create_constraint_functions: the list of {'type', 'fun'} dicts.  The
\* closure binds expression and bound as defaults, but reads constr_type
\* when it is called, and it is called by minimize, after the loop: every
\* function sees the type of the last constraint.  fun is the table of
\* the closure over the points.
create_constraint_functions(cons, params) ==
    [k \in 1..Len(cons) |->
        LET constr_type == cons[Len(cons)].type
            b == cons[k].bound
        IN  [type |-> "inequality",
             fun |-> [p \in MoPoints |->
                        LET value == sum_values(
                                         denormalize_parameters(p, params))
                        IN  IF constr_type = "inequality"
                            THEN b - value ELSE value - b]]]

\* _weighted_sum_optimization, with result.x the point minimize returned
weighted_sum_optimization(objs, cons, params, prefs, result_x) ==
    LET weights == determine_weights(objs, prefs)
        combined_objective(p) ==
            [num |-> SumSeq([i \in 1..Len(objs) |->
                        weights.num[i] * mo_evaluate_objective(objs[i],
                            denormalize_parameters(p, params))]),
             den |-> weights.den]
    IN  [solution |-> result_x,
         objective_value |-> combined_objective(result_x),
         weights |-> weights]

\* f'epsilon_{i}', i counted from 0
epsilon_name(i) == <<"epsilon_0", "epsilon_1", "epsilon_2">>[i + 1]

\* [0.1] * len(secondary_objs)
DefaultEpsilon == Micro \div 10

\* f'{epsilon} - {expression}': the difference of the two
Difference(left, right) == [op |-> "-", left |-> left, right |-> right]

RECURSIVE add_epsilon_constraints(_, _, _, _)
\* the loop of _epsilon_constraint_optimization from index i on
add_epsilon_constraints(all_constraints, secondary_objs, epsilon_values, i) ==
    IF i >= Len(secondary_objs) THEN all_constraints
    ELSE add_epsilon_constraints(
             IF i < Len(epsilon_values)
             THEN dict_update(all_constraints,
                      [name |-> epsilon_name(i),
                       type |-> "inequality",
                       expression |->
                           Difference(epsilon_values[i + 1],
                                      secondary_objs[i + 1].expression),
                       bound |-> 0])
             ELSE all_constraints,
             secondary_objs, epsilon_values, i + 1)

\* _epsilon_constraint_optimization, with result.x the point minimize
\* returned; all_constraints is shown beside the returned keys
epsilon_constraint_optimization(objs, cons, params, prefs, result_x) ==
    LET primary_obj == objs[1]
        secondary_objs == Tail(objs)
        epsilon_values ==
            dict_get(prefs, "epsilon_values",
                     [i \in 1..Len(secondary_objs) |-> DefaultEpsilon])
        all_constraints ==
            add_epsilon_constraints(cons, secondary_objs, epsilon_values, 0)
    IN  [solution |-> result_x,
         primary_objective |->
             mo_evaluate_objective(primary_obj,
                                   denormalize_parameters(result_x, params)),
         epsilon_values |-> epsilon_values,
         all_constraints |-> all_constraints,
         constraint_funcs |->
             create_constraint_functions(all_constraints, params)]

\* ------------------------------------------------------------------------
\* Calls of the methods of MultiObjectiveOptimizer: the specification
\* ------------------------------------------------------------------------
\* Each behaviour is one call of one method on the inputs Init drew.
\* the objectives of a call: two or three, each with its expression
MoObjectives ==
    { << [name |-> "f1", expression |-> "f1(x)"],
         [name |-> "f2", expression |-> "f2(x)"] >>,
      << [name |-> "f1", expression |-> "f1(x)"],
         [name |-> "f2", expression |-> "f2(x)"],
         [name |-> "f3", expression |-> "f3(x)"] >> }

\* a user's constraint of the given name and type
MoConstraint(name, type) ==
    [name |-> name, type |-> type, expression |-> "a + b",
     bound |-> 400]

\* the constraint maps of a call: at most two constraints, in either
\* order, one of them perhaps under the name of an epsilon constraint
MoConstraints ==
    LET Entries == {MoConstraint(n, t) : n \in {"c1", "epsilon_0"},
                                         t \in {"inequality", "equality"}}
    IN  {q \in SeqsUpTo(Entries, MaxConstraints) :
            \A i, j \in 1..Len(q) : i # j => q[i].name # q[j].name}

\* the dicts with the key k and a value of S, and the empty dict
Part(k, S) == {<< >>} \cup {[j \in {k} |-> v] : v \in S}

\* preferences about the weights: each key is there or not
WeightPreferences ==
    {a @@ b @@ d :
        a \in Part("weight_method", {"user_defined", "entropy_weights"}),
        b \in Part("weights", {[num |-> <<1, 3>>, den |-> 1]}),
        d \in Part("paretto_points", {1})}

\* preferences about the epsilons: none, one, or two (and one point of
\* the front)
EpsilonPreferences ==
    {[k \in {"paretto_points"} |-> 1] @@ e :
        e \in Part("epsilon_values", {<<200>>, <<200, 200>>})}

\* np.random.random(n): the draws, up to a common factor
RandomDraws(n) == [1..n -> {1, 2}]

\* A call either stresses the constraints and the epsilons (with two or
\* three objectives) or the weights (with two objectives).
InitMo ==
    /\ \/ /\ objectives \in MoObjectives
          /\ constraints \in MoConstraints
          /\ preferences \in EpsilonPreferences
       \/ /\ objectives \in {o \in MoObjectives : Len(o) = 2}
          /\ constraints \in {c \in MoConstraints : Len(c) <= 1}
          /\ preferences \in WeightPreferences
    /\ parameters = MoParameters
    /\ x = normalize_parameters(MoParameters)
    /\ paretto_solutions = << >>
    /\ paretto_objectives = << >>
    /\ out = NoCall
    /\ mo_frame = NoFrame
    /\ RunsIdle
    /\ SymIdle
    /\ SurIdle
    /\ MonIdle

moInputs == <<objectives, constraints, parameters, x>>

\* _create_constraint_functions(constraints, parameters)
CreateConstraintFunctions ==
    /\ mo_frame = NoFrame
    /\ out = NoCall
    /\ out' = [op |-> "create_constraint_functions",
               result |-> create_constraint_functions(constraints, parameters)]
    /\ UNCHANGED <<moInputs, paretto_solutions, paretto_objectives,
                   preferences, mo_frame, runVars, symVars, surVars, monVars>>

\* _weighted_sum_optimization(objectives, constraints, parameters,
\* preferences)
WeightedSumOptimization ==
    /\ mo_frame = NoFrame
    /\ out = NoCall
    /\ \E result_x \in minimize(x) :
          out' = [op |-> "weighted_sum_optimization",
                  result |-> weighted_sum_optimization(
                                 objectives, constraints, parameters,
                                 preferences, result_x)]
    /\ UNCHANGED <<moInputs, paretto_solutions, paretto_objectives,
                   preferences, mo_frame, runVars, symVars, surVars, monVars>>

\* _epsilon_constraint_optimization(objectives, constraints, parameters,
\* preferences)
EpsilonConstraintOptimization ==
    /\ mo_frame = NoFrame
    /\ out = NoCall
    /\ \E result_x \in minimize(x) :
          out' = [op |-> "epsilon_constraint_optimization",
                  result |-> epsilon_constraint_optimization(
                                 objectives, constraints, parameters,
                                 preferences, result_x)]
    /\ UNCHANGED <<moInputs, paretto_solutions, paretto_objectives,
                   preferences, mo_frame, runVars, symVars, surVars, monVars>>

\* _paretto_front_optimization up to its loop
ParettoStart ==
    /\ mo_frame = NoFrame
    /\ out = NoCall
    /\ paretto_solutions = << >>
    /\ mo_frame' = [kind |-> "paretto", i |-> 0,
                    n_points |-> dict_get(preferences, "paretto_points",
                                          DefaultParettoPoints)]
    /\ paretto_solutions' = << >>
    /\ paretto_objectives' = << >>
    /\ UNCHANGED <<moInputs, out, preferences,
                   runVars, symVars, surVars, monVars>>

\* one pass of the loop: draw the weights, store them in the caller's
\* preferences, solve the weighted problem, collect the solution
ParettoIterate ==
    /\ mo_frame.kind = "paretto"
    /\ mo_frame.i < mo_frame.n_points
    /\ \E draw \in RandomDraws(Len(objectives)), result_x \in minimize(x) :
          LET weights == [num |-> draw, den |-> SumSeq(draw)]
              prefs == [k \in {"weights"} |-> weights] @@ preferences
              solution == weighted_sum_optimization(
                              objectives, constraints, parameters,
                              prefs, result_x)
              actual_params == denormalize_parameters(solution.solution,
                                                      parameters)
              obj_values == [k \in 1..Len(objectives) |->
                                mo_evaluate_objective(objectives[k],
                                                      actual_params)]
          IN  /\ preferences' = prefs
              /\ paretto_solutions' =
                     Append(paretto_solutions, solution.solution)
              /\ paretto_objectives' = Append(paretto_objectives, obj_values)
              /\ mo_frame' = [kind |-> "paretto", i |-> mo_frame.i + 1,
                              n_points |-> mo_frame.n_points,
                              weights |-> weights, solution |-> solution]
    /\ UNCHANGED <<moInputs, out, runVars, symVars, surVars, monVars>>

\* after the loop: filter the collected solutions and return
ParettoReturn ==
    /\ mo_frame.kind = "paretto"
    /\ mo_frame.i >= mo_frame.n_points
    /\ LET non_dominated == filter_non_dominated_solutions(
                                paretto_solutions, paretto_objectives)
       IN  out' = [op |-> "paretto_front_optimization",
                   result |->
                       [paretto_solutions |-> non_dominated.solutions,
                        paretto_objectives |-> non_dominated.objectives,
                        total_points_generated |-> mo_frame.n_points,
                        non_dominated_points |->
                            Len(non_dominated.solutions)]]
    /\ mo_frame' = NoFrame
    /\ UNCHANGED <<moInputs, paretto_solutions, paretto_objectives,
                   preferences, runVars, symVars, surVars, monVars>>

NextMo ==
    \/ CreateConstraintFunctions
    \/ WeightedSumOptimization
    \/ EpsilonConstraintOptimization
    \/ ParettoStart
    \/ ParettoIterate
    \/ ParettoReturn

SpecMo == InitMo /\ [][NextMo]_vars

\* ------------------------------------------------------------------------
\* PerformanceMonitor: the history of the optimizations
\* ------------------------------------------------------------------------
\* A record of the history is [optimization_id, metrics]; its timestamp,
\* the wall clock at the call, is left out.

\* q[-n:] for n > 0
last(q, n) == SubSeq(q, Max(1, Len(q) - n + 1), Len(q))

\* a track_optimization_performance that keeps the oldest records
track_optimization_performance_oldest(history, performance_data) ==
    LET appended == Append(history, performance_data) IN
    IF Len(appended) > MaxHistory
    THEN SubSeq(appended, 1, MaxHistory) ELSE appended

\* track_optimization_performance: the history it leaves
track_optimization_performance(history, performance_data) ==
    LET appended == Append(history, performance_data) IN
    IF Len(appended) > MaxHistory
    THEN last(appended, MaxHistory) ELSE appended

\* [opt['metrics'].get(key, 0) for opt in optimizations]
metric_values(optimizations, key) ==
    [k \in 1..Len(optimizations) |->
        IF key \in DOMAIN optimizations[k].metrics
        THEN optimizations[k].metrics[key] ELSE 0]

\* np.mean(values), as the sum and the count
mean(values) == [sum |-> SumSeq(values), n |-> Len(values)]

\* get_performance_metrics(system_id) on the history; the trend, the
\* health and the recommendations, which read recent_optimizations only,
\* are left out
get_performance_metrics(history, system_id) ==
    LET Matches(opt) == opt.optimization_id = system_id
        recent_optimizations == last(SelectSeq(history, Matches), RecentWindow)
    IN  IF recent_optimizations = << >> THEN [status |-> "no_data"]
        ELSE [performance_summary |->
                 [total_optimizations |-> Len(recent_optimizations),
                  average_convergence_time |->
                      mean(metric_values(recent_optimizations,
                                         "convergence_time")),
                  average_improvement |->
                      mean(metric_values(recent_optimizations,
                                         "objective_improvement"))],
              recent_metrics |-> last(recent_optimizations, RecentMetrics)]

\* ------------------------------------------------------------------------
\* Calls of the PerformanceMonitor: the specification
\* ------------------------------------------------------------------------
SystemIds == {"s1", "s2"}

\* the metrics of a tracked optimization: with or without a convergence
\* time
MonMetrics ==
    {[convergence_time |-> 1, objective_improvement |-> 1],
     [objective_improvement |-> 2]}

InitMon == EvalIdle /\ RunsIdle /\ SymIdle /\ SurIdle /\ MoIdle /\ MonIdle

\* track_optimization_performance(optimization_id, metrics)
TrackOptimizationPerformance(optimization_id, metrics) ==
    /\ optimization_history' =
          track_optimization_performance(
              optimization_history,
              [optimization_id |-> optimization_id, metrics |-> metrics])
    /\ mon_out' = [op |-> "track_optimization_performance",
                   optimization_id |-> optimization_id, metrics |-> metrics]
    /\ UNCHANGED <<evalVars, runVars, symVars, surVars, moVars>>

\* get_performance_metrics(system_id)
GetPerformanceMetrics(system_id) ==
    /\ mon_out' = [op |-> "get_performance_metrics", system_id |-> system_id,
                   result |-> get_performance_metrics(optimization_history,
                                                      system_id)]
    /\ UNCHANGED <<optimization_history,
                   evalVars, runVars, symVars, surVars, moVars>>

NextMon ==
    \/ \E optimization_id \in SystemIds, metrics \in MonMetrics :
          TrackOptimizationPerformance(optimization_id, metrics)
    \/ \E system_id \in SystemIds : GetPerformanceMetrics(system_id)

SpecMon == InitMon /\ [][NextMon]_vars

\* ------------------------------------------------------------------------
\* Properties of the evaluation calls (SpecEval)
\* ------------------------------------------------------------------------
\* the value of an expression at a binding, where it has one
Evaluable(expression, params) == PyEval(expression, params).ok
ValueAt(expression, params) == PyEval(expression, params).val

\* the violation of a constraint as the specification defines it:
\* max(0, value - bound) for inequality, |value - bound| for equality
Violation(constraint, params) ==
    LET d == ValueAt(constraint.expression, params) - constraint.bound IN
    IF constraint.type = "inequality" THEN Max(0, d) ELSE Abs(d)

\* every constraint is an equality or an inequality with a value at params
WellFormed(constrs, params) ==
    \A n \in DOMAIN constrs :
        /\ constrs[n].type \in {"equality", "inequality"}
        /\ Evaluable(constrs[n].expression, params)

\* sum over the constraints of penaltyWeight * violation^2
ViolationPenalty(constrs, params) ==
    SumSet(DOMAIN constrs,
           [n \in DOMAIN constrs |->
               (PenaltyWeight * Violation(constrs[n], params)
                              * Violation(constrs[n], params)) \div Micro])

\* C1: the scalar _evaluate_objectives returns for a candidate equals the sum
\* over minimize objectives of weight * value minus the sum over maximize
\* objectives of weight * value, plus the constraint penalty, every value and
\* the penalty taken at the binding of that candidate.
C1_CostAtBinding ==
    (out.op = "evaluate_objectives" /\ out.result.ok) =>
        out.result.val = objectives_cost(objectives, Binding(x)).val
                         + evaluate_constraints(constraints, Binding(x))

\* C2: the penalty of a binding is the sum over the constraints of
\* penaltyWeight * violation^2 (penaltyWeight being the solver's 1e6, the
\* constraints equalities and inequalities with a value at the binding); it is at most penaltyWeight * tolerance^2 per
\* constraint when every violation is within the tolerance (zero when there
\* is no violation), and it strictly grows when the violation of one violated
\* constraint grows while the other violations stay as they are.
C2_PenaltyQuadratic ==
    (out.op = "evaluate_constraints" /\ WellFormed(constraints, Binding(x))) =>
        /\ out.result = ViolationPenalty(constraints, Binding(x))
        /\ (\A n \in DOMAIN constraints :
               Violation(constraints[n], Binding(x)) = 0) => out.result = 0
        /\ (\A n \in DOMAIN constraints :
               Violation(constraints[n], Binding(x)) <= Tolerance) =>
             out.result <= Cardinality(DOMAIN constraints)
                             * PenaltyTerm(Tolerance, 0)
        /\ \A x2 \in Vectors : \A n \in DOMAIN constraints :
             ( /\ WellFormed(constraints, Binding(x2))
               /\ Violation(constraints[n], Binding(x)) > 0
               /\ Violation(constraints[n], Binding(x2))
                    > Violation(constraints[n], Binding(x))
               /\ \A m \in DOMAIN constraints \ {n} :
                     Violation(constraints[m], Binding(x2))
                       = Violation(constraints[m], Binding(x)) )
             => evaluate_constraints(constraints, Binding(x2)) > out.result

\* C2 witness: the penalty was computed for two well-formed constraints, one
\* of them violated, and another candidate violates that one more while
\* leaving the other as it is.
C2_Witness ==
    /\ out.op = "evaluate_constraints"
    /\ WellFormed(constraints, Binding(x))
    /\ Cardinality(DOMAIN constraints) = 2
    /\ out.result > 0
    /\ \E x2 \in Vectors : \E n \in DOMAIN constraints :
          /\ WellFormed(constraints, Binding(x2))
          /\ Violation(constraints[n], Binding(x)) > 0
          /\ Violation(constraints[n], Binding(x2))
               > Violation(constraints[n], Binding(x))
          /\ \E m \in DOMAIN constraints \ {n} :
                /\ Violation(constraints[m], Binding(x)) > 0
                /\ Violation(constraints[m], Binding(x2))
                     = Violation(constraints[m], Binding(x))

\* C4: the violation reported for an inequality is max(0, value - bound) and
\* for an equality |value - bound|, hence never negative, in the constraint
\* manager's feasibility record and in the solver's constraint analysis.
C4_ViolationNonNegative ==
    /\ (out.op = "evaluate_constraint_feasibility"
          /\ WellFormed(constraints, Binding(x))) =>
          /\ out.result.violation
               = Violation(constraints[out.name], Binding(x))
          /\ out.result.violation >= 0
    /\ (out.op = "analyze_constraints"
          /\ WellFormed(constraints, Binding(x))) =>
          \A n \in DOMAIN constraints :
             /\ out.result[n].violation
                  = Violation(constraints[n], Binding(x))
             /\ out.result[n].violation >= 0

\* C5: a constraint is reported feasible exactly when its violation is
\* within the tolerance 1e-6, and a binding is reported feasible exactly
\* when every violation is, so the per-constraint flags and the aggregate
\* flag agree.
C5_FeasibilityTolerance ==
    /\ out.op = "evaluate_constraint_feasibility" =>
          (out.result.feasible <=> out.result.violation <= Tolerance)
    /\ out.op = "apply_constraints" =>
          /\ out.result.is_feasible <=>
                \A n \in DOMAIN constraints :
                   out.result.constraint_violations[n] <= Tolerance
          /\ out.result.is_feasible <=>
                \A n \in DOMAIN constraints :
                   cm_evaluate_constraint_feasibility(
                       constraints[n], Binding(x)).feasible

\* some objective or constraint expression of the request has no value at
\* params
SomeEvaluationFails(objs, constrs, params) ==
    \/ \E i \in 1..Len(objs) :
          /\ objs[i].function.type = "analytical"
          /\ ~Evaluable(objs[i].function.expression, params)
    \/ \E n \in DOMAIN constrs : ~Evaluable(constrs[n].expression, params)

\* C10: when an objective or constraint expression cannot be evaluated at
\* the candidate's binding, the solver's evaluation of the candidate raises
\* or yields +infinity, never an ordinary finite value.
C10_FailedEvaluationRejected ==
    /\ (out.op = "evaluate_objectives"
          /\ SomeEvaluationFails(objectives, constraints, Binding(x))) =>
          (~out.result.ok \/ out.result.val >= Infinity)
    /\ (out.op = "evaluate_constraints"
          /\ SomeEvaluationFails(<< >>, constraints, Binding(x))) =>
          out.result >= Infinity

\* C22: the binding a solver passes to objective and constraint evaluation
\* for a candidate is complete: it maps each parameter name of the request
\* to the corresponding component of the candidate vector, never fewer.
C22_BindingComplete ==
    out.op = "evaluate_objectives" =>
        /\ DOMAIN objective_binding(x)
              = {RequestParameters[i].name : i \in 1..Len(RequestParameters)}
        /\ \A i \in 1..Len(RequestParameters) :
              objective_binding(x)[RequestParameters[i].name] = x[i]

\* ------------------------------------------------------------------------
\* Properties of the Pareto filter (SpecEval)
\* ------------------------------------------------------------------------
\* an objective vector with its maximize objectives negated
Normalised(obj, objs) ==
    [k \in 1..Len(obj) |->
        IF objs[k].type = "maximize" THEN 0 - obj[k] ELSE obj[k]]

\* a dominates b: no worse in every objective and strictly better in one,
\* after normalising maximize to minimize
ParetoDominates(a, b, objs) ==
    LET na == Normalised(a, objs)
        nb == Normalised(b, objs)
    IN  /\ \A k \in 1..Len(na) : na[k] <= nb[k]
        /\ \E k \in 1..Len(na) : na[k] < nb[k]

\* the indices of the samples no other sample dominates
NonDominated(samples, objs) ==
    {i \in 1..Len(samples) :
        ~\E j \in 1..Len(samples) :
            j # i /\ ParetoDominates(samples[j], samples[i], objs)}

Range(q) == {q[i] : i \in 1..Len(q)}

\* C3: the Pareto filter returns exactly the pairs that no other pair
\* dominates, dominance being taken after maximize objectives are normalised
\* to minimize; for (1,4),(2,3),(3,2),(4,1),(2,2), both minimised, the front
\* is {(1,4),(2,2),(4,1)}.
C3_ParetoFront ==
    out.op = "filter_non_dominated_solutions" =>
        LET front == NonDominated(paretto_objectives, objectives) IN
        /\ out.result.solutions = SelectSeq2(paretto_solutions, front, 1)
        /\ out.result.objectives = SelectSeq2(paretto_objectives, front, 1)
        /\ ( /\ paretto_objectives = ExampleObjectives
             /\ \A k \in 1..Len(objectives) : objectives[k].type = "minimize" )
           => Range(out.result.objectives) = {<<1, 4>>, <<2, 2>>, <<4, 1>>}

\* ------------------------------------------------------------------------
\* Properties of the calls of the entry points (Spec, SpecInvalid)
\* ------------------------------------------------------------------------
\* C6: every result optimize_system returns carries a final feasibility
\* check {is_feasible, final_penalty} taken at the returned optimal
\* parameters: is_feasible tells whether every constraint is within the
\* tolerance there, final_penalty is the penalty there.
C6_FinalFeasibilityCheck ==
    \A r \in Runs :
        (pc[r] = "returned" /\ request[r].api = "optimize_system") =>
            /\ "final_feasibility_check" \in DOMAIN result[r].value
            /\ result[r].value.final_feasibility_check.is_feasible
                 <=> \A n \in DOMAIN request[r].constraints :
                        Violation(request[r].constraints[n],
                                  result[r].value.optimal_parameters)
                          <= Tolerance
            /\ result[r].value.final_feasibility_check.final_penalty
                 = ViolationPenalty(request[r].constraints,
                                    result[r].value.optimal_parameters)

AtIterationBoundary(r) == pc[r] = "pso_loop" /\ frame[r].i = 1

\* C8: a cancellation requested while a run executes is observed at the next
\* iteration boundary: the step the run takes from a boundary with the
\* request pending ends the run, which returns the best point found so far.
C8_CancellationObserved ==
    [][\A r \in Runs :
          ( /\ cancel_requested[r]
            /\ AtIterationBoundary(r)
            /\ <<pc[r], frame[r]>>' # <<pc[r], frame[r]>> )
          => /\ Status(r)' \in {"succeeded", "cancelled"}
             /\ result'[r].value.optimal_parameters
                  = vector_to_parameters(
                        deref(frame[r], frame[r].global_best_position),
                        request[r].parameters)]_vars

\* run r has been through the method check
Dispatched(r) == pc[r] \notin {"pending", "dispatch"}

\* run r asked for a method its entry point does not register
Unsupported(r) ==
    /\ request[r] # NoRequest
    /\ request[r].method \notin method_table(request[r].api)

\* C9: a request for an unregistered method is rejected at dispatch with an
\* error, by optimize_system and by optimize_multi_objective, before any
\* objective is evaluated or any solver started; the rejection changes
\* nothing of the other runs.
C9_UnsupportedMethodRejected ==
    /\ [](\A r \in Runs :
            (Unsupported(r) /\ Dispatched(r)) =>
                /\ pc[r] = "raised"
                /\ result[r].error = "SimulationError"
                /\ evaluations[r] = 0
                /\ frame[r] = NoFrame)
    /\ [][\A r \in Runs :
            (Unsupported(r) /\ pc[r] = "dispatch" /\ pc'[r] # pc[r]) =>
                /\ pc'[r] = "raised"
                /\ \A q \in Runs \ {r} :
                      /\ request'[q] = request[q]
                      /\ pc'[q] = pc[q]
                      /\ frame'[q] = frame[q]
                      /\ evaluations'[q] = evaluations[q]
                      /\ result'[q] = result[q]]_vars

\* C9 witness: both entry points have rejected a request, or one was
\* rejected and the next request on the same objects was served.
C9_Witness ==
    /\ Unsupported(1)
    /\ pc[1] = "raised"
    /\ request[1].api = "optimize_multi_objective"
    /\ request[2] # NoRequest
    /\ request[2].api = "optimize_system"
    /\ pc[2] = "returned"
    /\ evaluations[2] > 0

\* run r carries a constraint whose type is neither equality nor inequality
InvalidConstraint(r) ==
    /\ request[r] # NoRequest
    /\ \E n \in DOMAIN request[r].constraints :
          request[r].constraints[n].type \notin {"equality", "inequality"}

\* C13: a request with a constraint whose type is neither equality nor
\* inequality is rejected with an error before any solve starts: once past
\* the method check the run has raised, no solver step was taken and no
\* objective was evaluated for it.
C13_InvalidConstraintRejected ==
    \A r \in Runs :
        (InvalidConstraint(r) /\ Dispatched(r)) =>
            /\ pc[r] = "raised"
            /\ evaluations[r] = 0
            /\ frame[r] = NoFrame

\* run r carries a parameter whose initial value lies outside its bounds
InitialValueOutOfBounds(r) ==
    /\ request[r] # NoRequest
    /\ \E i \in 1..Len(request[r].parameters) :
          LET config == request[r].parameters[i].config IN
          config.value < config.bounds[1] \/ config.value > config.bounds[2]

\* C14: a request with a parameter whose initial value lies outside its
\* bounds is rejected at validation: once past the method check the run has
\* raised without an evaluation, so no solver starts from or returns a
\* clamped or substituted value for that parameter.
C14_OutOfBoundsRejected ==
    \A r \in Runs :
        (InitialValueOutOfBounds(r) /\ Dispatched(r)) =>
            /\ pc[r] = "raised"
            /\ evaluations[r] = 0

\* C15: every result optimize_system returns, whatever the method, has
\* iterations, success and message in its convergence metrics, and the
\* convergence_achieved flag of its report equals that success value, a
\* solver that did not converge returning normally with success false.
C15_ConvergenceMetrics ==
    \A r \in Runs :
        (pc[r] = "returned" /\ request[r].api = "optimize_system") =>
            /\ {"iterations", "success", "message"}
                  \subseteq DOMAIN result[r].value.convergence_metrics
            /\ result[r].value.optimization_report.optimization_summary
                  .convergence_achieved
                  = result[r].value.convergence_metrics.success

\* run r is a Bayesian optimization whose objective has a value everywhere
BayesianRun(r) ==
    /\ request[r] # NoRequest
    /\ request[r].api = "optimize_system"
    /\ request[r].method = "bayesian_optimization"
    /\ request[r].objectives = GoodObjectives

\* C23: a Bayesian optimization run with n initial points and a budget of k
\* iterations completes without error, having evaluated the true objective
\* n + k times (there is no early stop in the code), and the point it
\* returns is the sample with the lowest objective value of all samples.
C23_BayesianLoop ==
    /\ [](\A r \in Runs :
            (BayesianRun(r) /\ Status(r) \in Terminal) =>
                /\ pc[r] = "returned"
                /\ evaluations[r] = NInitialPoints + BayesIter)
    /\ [][\A r \in Runs :
            (pc[r] = "bayes_loop" /\ pc'[r] = "returned") =>
                /\ Len(frame[r].y_samples) = NInitialPoints + BayesIter
                /\ \A i \in 1..Len(frame[r].y_samples) :
                      result'[r].value.objective_values.total_cost
                        <= frame[r].y_samples[i]]_vars

\* ------------------------------------------------------------------------
\* Properties of the symbolic engine (SpecSym)
\* ------------------------------------------------------------------------
\* the binding params without the names outside S
Restrict(params, S) == [n \in S \cap DOMAIN params |-> params[n]]

\* C11: evaluate_expression fails whenever a free variable of the parsed
\* expression has no binding, returns a number only when every free variable
\* is bound, and bindings the expression does not use change nothing: the
\* outcome is the one of the binding restricted to the free variables.
C11_UnboundVariableFails ==
    sym_out.op = "evaluate_expression" =>
        LET parsed == sympify(sym_out.expression)
            free == FreeNames(parsed.expr)
        IN  parsed.ok =>
              /\ ~(free \subseteq DOMAIN sym_out.parameters)
                    => ~sym_out.result.ok
              /\ sym_out.result.ok => free \subseteq DOMAIN sym_out.parameters
              /\ sym_out.result =
                    sym_evaluate_expression(<< >>, sym_out.expression,
                        Restrict(sym_out.parameters, free))

\* C11 witness: "x + y" was evaluated with x and the unused w bound and y
\* unbound, and the call failed.
C11_Witness ==
    /\ sym_out.op = "evaluate_expression"
    /\ sym_out.expression = Add("x", "y")
    /\ DOMAIN sym_out.parameters = {"x", "w"}
    /\ ~sym_out.result.ok

\* the functions an expression may call
AllowList == {"sin", "cos", "tan", "log", "exp", "sqrt", "abs", "power"}

\* every token of the expression is arithmetic, a number, a variable or an
\* allow-listed function
AllowListed(e) ==
    \/ e.kind \in {"num", "var", "add", "sub"}
    \/ e.kind = "call" /\ e.fn \in AllowList

\* C12: the parser and the evaluator accept an expression only if every
\* token of it is arithmetic, a number, a variable or an allow-listed
\* function; an expression with another function call is rejected and never
\* evaluated.
C12_AllowListOnly ==
    /\ (sym_out.op = "parse_expression" /\ sym_out.result.ok)
          => AllowListed(sym_out.expression)
    /\ (sym_out.op = "evaluate_expression" /\ sym_out.result.ok)
          => AllowListed(sym_out.expression)

\* ------------------------------------------------------------------------
\* Properties of the surrogate model manager (SpecSur)
\* ------------------------------------------------------------------------
\* C16: training a model on fewer than 5 samples fails, for every model
\* kind, and leaves the registry as it was: no model is registered or
\* replaced under the requested id.
C16_InsufficientDataRejected ==
    [][\A t \in Tasks :
          (CreateFinish(t) /\ task[t].n < 5) =>
              /\ ~returned'.ok
              /\ models' = models]_vars

\* C17: predict on a registered model of any kind, with M input rows,
\* returns a single vector of length M, never a (mean, stddev) pair.
C17_PredictReturnsVector ==
    (returned.op = "predict" /\ returned.ok) =>
        /\ returned.value.kind = "ndarray"
        /\ Len(returned.value.data) = returned.inputs

\* C18: predict is read-only and idempotent: it leaves the registry (ids,
\* models and metrics) and the calls in progress as they are, and the same
\* call on the state it leaves returns the same outputs.
C18_PredictReadOnly ==
    [][\A t \in Tasks, model_id \in ModelIds, M \in 1..MaxRows :
          Predict(t, model_id, M) =>
              /\ models' = models
              /\ task' = task
              /\ returned' = [op |-> "predict", model_id |-> model_id,
                              inputs |-> M] @@ predict(models', model_id, M)]_vars

\* C18 witness: a prediction was returned by a registered model.
C18_Witness ==
    /\ returned.op = "predict"
    /\ returned.ok
    /\ returned.model_id \in DOMAIN models
    /\ models[returned.model_id].model.fitted

\* C19: after a successful update of a Gaussian-process or random-forest
\* model, the model stored under the id is fitted, on the samples it was
\* fitted on before and the new ones, and predict and evaluate_model on the
\* id succeed.
C19_UpdateRetrainsOnUnion ==
    [][\A t \in Tasks :
          ( /\ UpdateFinish(t)
            /\ returned'.ok
            /\ models[task[t].model_id].model_type
                 \in {"gaussian_process", "random_forest"} )
          => LET model_id == task[t].model_id IN
             /\ models'[model_id].model.fitted
             /\ models'[model_id].model.n_samples
                  = models[model_id].model.n_samples + task[t].n
             /\ predict(models', model_id, 1).ok
             /\ evaluate_model(models', model_id,
                               [inputs |-> 1, outputs |-> 1]).ok]_vars

\* the tasks inside a create or an update of model_id
Writers(model_id) ==
    {t \in Tasks : task[t] # Idle /\ task[t].model_id = model_id}

C21_FailureLeavesRegistry ==
    [][\A t \in Tasks :
          /\ \A model_id \in ModelIds :
                ( /\ task' = task
                  /\ \/ \E model_type \in ModelTypes,
                           training_data \in TrainingData :
                           CreateSurrogateModel(t, model_id, model_type,
                                                training_data)
                     \/ \E new_data \in NewData :
                           UpdateModel(t, model_id, new_data) )
                => models' = models
          /\ (CreateFinish(t) /\ ~returned'.ok) => models' = models
          /\ (UpdateFinish(t) /\ ~returned'.ok) =>
                /\ DOMAIN models' = DOMAIN models
                /\ models'[task[t].model_id] = task[t].entry_before]_vars

\* run r is in the loop of the particle swarm
InPsoLoop(r) == pc[r] = "pso_loop"

\* C27: in the particle swarm, after every particle update the global best
\* position is a position whose score is the global best score, that score
\* is the least of the personal best scores and never goes up, and every
\* particle is within the bounds of the parameters; the parameters returned
\* are those of a point whose score is the objective value returned.
\* (_evaluate_objectives scores every vector at the empty binding, so the
\* scores of a run are one number, no particle ever improves on its first
\* score, and the view global_best_position stays on the row of
\* personal_best_positions it was taken from.)
C27_SwarmBest ==
    /\ [](\A r \in Runs : InPsoLoop(r) =>
            LET fr == frame[r] IN
            /\ Objective(r, deref(fr, fr.global_best_position)).val
                  = fr.global_best_score
            /\ \A i \in 1..NParticles :
                  fr.global_best_score <= fr.personal_best_scores[i]
            /\ \E i \in 1..NParticles :
                  fr.global_best_score = fr.personal_best_scores[i]
            /\ \A i \in 1..NParticles :
                  fr.positions[i]
                      \in Box(get_parameter_bounds(request[r].parameters)))
    /\ [][\A r \in Runs :
            (InPsoLoop(r) /\ InPsoLoop(r)') =>
                frame'[r].global_best_score <= frame[r].global_best_score]_vars
    /\ [][\A r \in Runs :
            (InPsoLoop(r) /\ pc'[r] = "returned") =>
                \E v \in Box(get_parameter_bounds(request[r].parameters)) :
                    /\ result'[r].value.optimal_parameters
                          = vector_to_parameters(v, request[r].parameters)
                    /\ Objective(r, v).val
                          = result'[r].value.objective_values.total_cost]_vars

\* C27 witness: every particle of a generation has been updated and one of
\* them has moved away from its personal best position.
C27_Witness ==
    \E r \in Runs :
        /\ InPsoLoop(r)
        /\ frame[r].i = NParticles + 1
        /\ \E i \in 1..NParticles :
              frame[r].positions[i] # frame[r].personal_best_positions[i]

\* C26: parsed expressions are cached by their source string.  A parse of
\* a cached source returns the cached expression and leaves the cache alone;
\* a first parse that succeeds files its result under the source, and under
\* nothing else; a parse that fails adds no entry; no call removes or
\* changes the entry of another source.
C26_CachedBySource ==
    [][\A s \in SymExpressions :
          /\ SymParseExpression(s) =>
                /\ s \in DOMAIN expression_cache =>
                      /\ sym_out'.result
                            = [ok |-> TRUE, expr |-> expression_cache[s]]
                      /\ expression_cache' = expression_cache
                /\ (s \notin DOMAIN expression_cache /\ sym_out'.result.ok) =>
                      /\ DOMAIN expression_cache'
                            = DOMAIN expression_cache \cup {s}
                      /\ expression_cache'[s] = sym_out'.result.expr
                /\ ~sym_out'.result.ok => expression_cache' = expression_cache
          /\ s \in DOMAIN expression_cache =>
                /\ s \in DOMAIN expression_cache'
                /\ expression_cache'[s] = expression_cache[s]]_vars

\* C26 witness: "x - x" was parsed to the 0 that the cache holds for it,
\* the cache holds a second source, and the malformed string has no entry.
C26_Witness ==
    /\ sym_out.op = "parse_expression"
    /\ sym_out.expression = Sub("x", "x")
    /\ Sub("x", "x") \in DOMAIN expression_cache
    /\ sym_out.result = [ok |-> TRUE, expr |-> expression_cache[Sub("x", "x")]]
    /\ Add("x", "y") \in DOMAIN expression_cache
    /\ Malformed \notin DOMAIN expression_cache

\* ------------------------------------------------------------------------
\* Properties of the multi-objective methods (SpecMo)
\* ------------------------------------------------------------------------
\* two lists of weights hold the same numbers
SameWeights(v, w) ==
    /\ Len(v.num) = Len(w.num)
    /\ \A i \in 1..Len(v.num) : v.num[i] * w.den = w.num[i] * v.den

\* the indices of the collected objective vectors no other one dominates
FrontOf(objs) ==
    {i \in 1..Len(objs) :
        ~\E j \in 1..Len(objs) :
            /\ j # i
            /\ \A k \in 1..Len(objs[i]) : objs[j][k] <= objs[i][k]
            /\ \E k \in 1..Len(objs[i]) : objs[j][k] < objs[i][k]}

\* C24: in Pareto sampling every weighted-sum sub-solve combines the
\* objectives with the weights drawn for its iteration (none negative,
\* summing to 1), whatever weight method the preferences select, and the
\* front returned is the non-dominated subset of the n collected solutions.
C24_ParettoUsesDrawnWeights ==
    /\ [](mo_frame.kind = "paretto" /\ mo_frame.i > 0 =>
            /\ \A i \in 1..Len(mo_frame.weights.num) :
                  mo_frame.weights.num[i] >= 0
            /\ SumSeq(mo_frame.weights.num) = mo_frame.weights.den
            /\ SameWeights(mo_frame.solution.weights, mo_frame.weights))
    /\ [][(mo_frame.kind = "paretto" /\ mo_frame' = NoFrame) =>
            /\ Len(paretto_solutions) = mo_frame.n_points
            /\ Len(out'.result.paretto_solutions)
                  = Cardinality(FrontOf(paretto_objectives))
            /\ \A i \in FrontOf(paretto_objectives) :
                  \E j \in 1..Len(out'.result.paretto_solutions) :
                      /\ out'.result.paretto_solutions[j]
                            = paretto_solutions[i]
                      /\ out'.result.paretto_objectives[j]
                            = paretto_objectives[i]]_vars

\* the values an objective is tried at: at and beside each epsilon
ObjectiveLevels == {e + d : e \in {DefaultEpsilon, 200}, d \in {-1, 0, 1}}

\* an added constraint allows the objective value v: the value of its
\* expression, the epsilon less the objective, is at most its bound
AllowsLevel(c, v) ==
    /\ c.type = "inequality"
    /\ c.expression.left - v <= c.bound

\* C25: the epsilon-constraint method adds, for every objective but the
\* first, an inequality that holds exactly where that objective is at most
\* its epsilon; every such objective gets one, every constraint of the
\* caller is still among the constraints of the solve, and the caller's
\* constraint map is as it was.
C25_EpsilonConstraints ==
    /\ [](out.op = "epsilon_constraint_optimization" =>
            LET all_constraints == out.result.all_constraints
                secondary_objs == Tail(objectives)
                epsilon_values == out.result.epsilon_values
            IN  /\ \A i \in 1..Len(secondary_objs) :
                      /\ i <= Len(epsilon_values)
                      /\ \E k \in 1..Len(all_constraints) :
                            /\ all_constraints[k].name = epsilon_name(i - 1)
                            /\ all_constraints[k].expression.right
                                  = secondary_objs[i].expression
                            /\ \A v \in ObjectiveLevels :
                                  AllowsLevel(all_constraints[k], v)
                                      <=> v <= epsilon_values[i]
                /\ \A k \in 1..Len(constraints) :
                      \E j \in 1..Len(all_constraints) :
                          /\ all_constraints[j].name = constraints[k].name
                          /\ all_constraints[j].type = constraints[k].type
                          /\ all_constraints[j].bound = constraints[k].bound)
    /\ [][out'.op = "epsilon_constraint_optimization" =>
              constraints' = constraints]_vars

\* C28: every function _create_constraint_functions builds is that of its
\* own constraint: the function of an inequality returns bound - value at
\* every point, and an equality is handed to the solver as an equality,
\* whatever the order of the constraints in the map.
C28_OwnConstraint ==
    out.op = "create_constraint_functions" =>
        /\ Len(out.result) = Len(constraints)
        /\ \A k \in 1..Len(constraints) :
              /\ constraints[k].type = "inequality" =>
                    /\ out.result[k].type = "inequality"
                    /\ \A p \in MoPoints :
                          out.result[k].fun[p]
                              = constraints[k].bound
                                  - sum_values(denormalize_parameters(
                                                   p, parameters))
              /\ constraints[k].type = "equality" =>
                    out.result[k].type = "equality"

\* ------------------------------------------------------------------------
\* Properties of the sample counts of the surrogate models (SpecSur)
\* ------------------------------------------------------------------------
\* C29: after a successful update the total training sample count reported
\* for the model, by update_model and by list_models, is the number of
\* samples it was first trained on plus the samples of every update so far.
\* A Gaussian process is refitted on all its samples, so for it that number
\* is the size of the training set of the stored estimator.
C29_TotalTrainingSamples ==
    [][\A t \in Tasks :
          ( /\ UpdateFinish(t)
            /\ returned'.ok
            /\ task[t].entry_before.model_type = "gaussian_process" )
          => LET model_id == task[t].model_id
                 trained == models'[model_id].model.n_samples
             IN  /\ returned'.total_training_samples = trained
                 /\ list_models(models')[model_id].training_samples
                       = trained]_vars

\* ------------------------------------------------------------------------
\* Properties of the performance monitor (SpecMon)
\* ------------------------------------------------------------------------
\* the indices of the records of system_id in the history
RecordsOf(system_id) ==
    {k \in 1..Len(optimization_history) :
        optimization_history[k].optimization_id = system_id}

\* those of them with fewer than RecentWindow later records of system_id
RecentRecordsOf(system_id) ==
    {k \in RecordsOf(system_id) :
        Cardinality({j \in RecordsOf(system_id) : j > k}) < RecentWindow}

\* the objective improvement of record k, 0 where the metrics have none
ImprovementOf(k) ==
    IF "objective_improvement" \in DOMAIN optimization_history[k].metrics
    THEN optimization_history[k].metrics.objective_improvement ELSE 0

\* C30: the history holds at most MaxHistory records, the most recently
\* tracked ones in the order they were tracked; get_performance_metrics
\* answers no_data exactly when the history holds no record of the id, and
\* otherwise summarises the most recent records of the id, RecentWindow of
\* them at most.
C30_BoundedHistory ==
    /\ [](Len(optimization_history) <= MaxHistory)
    /\ [][\A optimization_id \in SystemIds, metrics \in MonMetrics :
            TrackOptimizationPerformance(optimization_id, metrics) =>
                LET tracked == Append(optimization_history,
                                      [optimization_id |-> optimization_id,
                                       metrics |-> metrics])
                    kept == Len(optimization_history')
                IN  /\ kept = IF Len(tracked) <= MaxHistory
                              THEN Len(tracked) ELSE MaxHistory
                    /\ \A k \in 1..kept :
                          optimization_history'[k]
                              = tracked[Len(tracked) - kept + k]]_vars
    /\ [](mon_out.op = "get_performance_metrics" =>
            LET recent == RecentRecordsOf(mon_out.system_id) IN
            /\ mon_out.result = [status |-> "no_data"]
                  <=> RecordsOf(mon_out.system_id) = {}
            /\ RecordsOf(mon_out.system_id) # {} =>
                  /\ mon_out.result.performance_summary.total_optimizations
                        = Cardinality(recent)
                  /\ Cardinality(recent) <= RecentWindow
                  /\ mon_out.result.performance_summary.average_improvement
                        = [sum |-> SumSet(recent,
                                          [k \in recent |-> ImprovementOf(k)]),
                           n |-> Cardinality(recent)])

\* C30 witness: the history is full, and a summary was returned of an id
\* that has more than RecentWindow records in it.
C30_Witness ==
    /\ Len(optimization_history) = MaxHistory
    /\ mon_out.op = "get_performance_metrics"
    /\ Cardinality(RecordsOf(mon_out.system_id)) > RecentWindow
    /\ mon_out.result.performance_summary.total_optimizations = RecentWindow

====
